---- MODULE Spec2Model ----
(***************************************************************************)
(* Model of arosics.CoReg.COREG (src/arosics/CoReg.py): construction of    *)
(* the object (projection check, overlap, window position, window          *)
(* planner) and calculate_spatial_shifts (window materializer, shifted     *)
(* cross power spectrum, integer shift, validation loop, sub-pixel shift,  *)
(* max_shift check, result fields).                                        *)
(*                                                                         *)
(* Python values: None is the string "None"; the ternary success flag is   *)
(* "None" / "True" / "False".  Footprints are axis-parallel rectangles in  *)
(* integer map coordinates, a geotransform is [ox, oy, gsd] (north-up,     *)
(* square pixels).  Real numbers that matter (shifts) are exact rationals  *)
(* [n, d].  What the FFT, the resampler and the wall clock deliver is      *)
(* chosen nondeterministically from small sets.                            *)
(***************************************************************************)
EXTENDS Integers, Sequences, FiniteSets, TLC

VARIABLES
    pc,              \* position of the caller / of the running method
    params,          \* self.params and the fields copied from it (ignErr, max_iter, ...)
    ref,             \* self.ref   (GeoArray_CoReg of the reference image)
    shift,           \* self.shift (GeoArray_CoReg of the target image)
    grid2use,        \* self.grid2use
    overlap_poly,    \* self.overlap_poly
    overlap_area,    \* self.overlap_area: Null or <<area>>
    win_pos_XY,      \* self.win_pos_XY: per axis Null or <<coordinate>>
    win_size_XY,     \* self.win_size_XY
    matchBox,        \* self.matchBox
    otherBox,        \* self.otherBox
    imfft_gsd,       \* self.imfft_gsd: Null or <<pixel size>>
    matchWin,        \* self.matchWin (shape of its array)
    otherWin,        \* self.otherWin (shape of its array)
    fftw_works,      \* self.fftw_works
    fftw_win_size_YX,\* self.fftw_win_size_YX
    tracked_errors,  \* self.tracked_errors
    success,         \* self.success
    raised,          \* the exception that left the running method ("None": none)
    loc,             \* local variables of calculate_spatial_shifts
    res,             \* the result fields x_shift_px ... shift_reliability
    _coreg_info,     \* the dictionary kept by the coreg_info property, or Null
    reading,         \* the read of coreg_info that runs calculate_spatial_shifts
    ret              \* return value of calculate_spatial_shifts

vars == <<pc, params, ref, shift, grid2use, overlap_poly, overlap_area, win_pos_XY,
          win_size_XY, matchBox, otherBox, imfft_gsd, matchWin, otherWin, fftw_works,
          fftw_win_size_YX, tracked_errors, success, raised, loc, res, _coreg_info, reading,
          ret>>

\* Python None: as a string where the field holds strings, as the empty tuple elsewhere
None == "None"
Null == <<>>

\* ------------------------------------------------------------------ bounds
\* largest max_iter given to the constructor
MaxIter == 2
\* largest |integer shift| on an axis that a peak of the SCPS yields
MaxIntShift == 7
\* number of loop passes after which the planner's wall clock limit has surely expired
MaxShrinkIter == 3

\* --------------------------------------------------------------- arithmetic
Abs(x) == IF x < 0 THEN -x ELSE x
Min(a, b) == IF a <= b THEN a ELSE b
Max(a, b) == IF a >= b THEN a ELSE b

RECURSIVE Gcd(_, _)
Gcd(a, b) == IF b = 0 THEN a ELSE Gcd(b, a % b)

\* the rational n/d in lowest terms with a positive denominator
Rat(n, d) ==
    LET s == IF d < 0 THEN -1 ELSE 1
        g == Gcd(Abs(n), Abs(d))
    IN  [n |-> (s * n) \div g, d |-> (s * d) \div g]

RatAdd(a, b) == Rat(a.n * b.d + b.n * a.d, a.d * b.d)
RatMul(a, b) == Rat(a.n * b.n, a.d * b.d)
RatDiv(a, b) == Rat(a.n * b.d, a.d * b.n)
RatAbs(a) == [n |-> Abs(a.n), d |-> a.d]
RatGt(a, b) == a.n * b.d > b.n * a.d
RatMax(a, b) == IF RatGt(b, a) THEN b ELSE a
RatOfInt(i) == [n |-> i, d |-> 1]

FloorDiv(n, d) == n \div d
CeilDiv(n, d) == -((-n) \div d)
\* numpy.round of n/d (d > 0): to the nearest integer, a tie to the even one
RoundDiv(n, d) ==
    LET f == n \div d
        r == n % d
    IN  IF 2 * r < d THEN f
        ELSE IF 2 * r > d THEN f + 1
        ELSE IF f % 2 = 0 THEN f ELSE f + 1


\* ------------------------------------------------------------ error handling
\* the error kinds of the run
ErrorKinds == {"InsufficientOverlap", "UnequalProjections", "WindowOutsideOverlap",
               "WindowInBadData", "WindowTooSmall", "ShrinkageDeadlock", "NoMatchFound",
               "ShiftTooLarge", "WindowMismatch"}

\* st = [log, success, raised]: tracked_errors, success and the exception in flight
ErrState == [log |-> tracked_errors, success |-> success, raised |-> None]

\* an error handler that sets success to False without recording the error
handle_error_silent(st, error) ==
    [log     |-> st.log,
     success |-> "False",
     raised  |-> IF ~params.ignore_errors THEN error ELSE None]

\* COREG._handle_error: append, success = False, raise unless ignore_errors
handle_error(st, error) ==
    [log     |-> Append(st.log, error),
     success |-> "False",
     raised  |-> IF ~params.ignore_errors THEN error ELSE None]

\* the calls of _handle_error a method makes one after the other; a raised error
\* ends the method, so the later ones are not reported
RECURSIVE handle_errors(_, _)
handle_errors(st, errs) ==
    IF errs = <<>> \/ st.raised # None THEN st
    ELSE handle_errors(handle_error(st, Head(errs)), Tail(errs))

\* ------------------------------------------------------------------ geometry
\* an axis-parallel rectangle in map coordinates (a shapely polygon)
Rect(x0, x1, y0, y1) == [xmin |-> x0, xmax |-> x1, ymin |-> y0, ymax |-> y1]
Area(p) == (p.xmax - p.xmin) * (p.ymax - p.ymin)

\* shapely a.intersection(b): disjoint rectangles give the empty geometry (Null), touching
\* ones a geometry of area 0
Intersection(a, b) ==
    LET x0 == Max(a.xmin, b.xmin)
        x1 == Min(a.xmax, b.xmax)
        y0 == Max(a.ymin, b.ymin)
        y1 == Min(a.ymax, b.ymax)
    IN  IF x0 > x1 \/ y0 > y1 THEN Null ELSE Rect(x0, x1, y0, y1)

\* shapely a.within(b) of rectangles: a has an interior and no point outside b
Within(a, b) ==
    /\ Area(a) > 0
    /\ b.xmin <= a.xmin /\ a.xmax <= b.xmax
    /\ b.ymin <= a.ymin /\ a.ymax <= b.ymax

\* shapely poly.contains(Point(wp)): the point lies in the interior
ContainsPoint(p, wp) ==
    /\ p.xmin < wp[1] /\ wp[1] < p.xmax
    /\ p.ymin < wp[2] /\ wp[2] < p.ymax

\* centroid of a rectangle; its corners have even coordinate sums in this model
Centroid(p) == <<(p.xmin + p.xmax) \div 2, (p.ymin + p.ymax) \div 2>>

\* get_overlap_polygon: [overlap poly, overlap area]; None when the footprints are disjoint
get_overlap_polygon(poly1, poly2) ==
    LET ov == Intersection(poly1, poly2)
    IN  IF ov = Null THEN [poly |-> Null, area |-> 0]
        ELSE [poly |-> ov, area |-> Area(ov)]

\* footprint of an image: GeoArray_CoReg.footprint_poly
ImageExtent(im) ==
    Rect(im.gt.ox + im.inset, im.gt.ox + im.cols * im.gt.gsd,
         im.gt.oy - im.rows * im.gt.gsd, im.gt.oy)

\* boxObj(wp, ws, gt): the box of map size ws centred at wp
BoxFromWpWs(wp, ws, gt) ==
    [poly |-> Rect(wp[1] - ws[1] \div 2, wp[1] + ws[1] \div 2,
                   wp[2] - ws[2] \div 2, wp[2] + ws[2] \div 2),
     gt   |-> gt]

\* boxObj.boundsIm: (xmin, xmax, ymin, ymax) of the image polygon, rounded
BoundsIm(box) ==
    LET g  == box.gt.gsd
        xa == RoundDiv(box.poly.xmin - box.gt.ox, g)
        xb == RoundDiv(box.poly.xmax - box.gt.ox, g)
        ya == RoundDiv(box.gt.oy - box.poly.ymax, g)
        yb == RoundDiv(box.gt.oy - box.poly.ymin, g)
    IN  [xmin |-> Min(xa, xb), xmax |-> Max(xa, xb), ymin |-> Min(ya, yb), ymax |-> Max(ya, yb)]

\* boxObj.imDimsYX: (rows, cols)
ImDimsYX(box) ==
    LET b == BoundsIm(box) IN <<b.ymax - b.ymin, b.xmax - b.xmin>>

\* boxObj.imPoly / boxImYX setter: the box with the given image bounds on its own grid
BoxFromIm(box, xa, xb, ya, yb) ==
    LET g == box.gt.gsd
    IN  [box EXCEPT !.poly = Rect(box.gt.ox + g * Min(xa, xb), box.gt.ox + g * Max(xa, xb),
                                  box.gt.oy - g * Max(ya, yb), box.gt.oy - g * Min(ya, yb))]

\* boxObj.buffer_imXY(bx, by): grow the rounded image bounds by bx, by pixels per side
BufferImXY(box, bx, by) ==
    LET b == BoundsIm(box)
    IN  BoxFromIm(box, b.xmin - bx, b.xmax + bx, b.ymin - by, b.ymax + by)

\* round_shapelyPoly_coords(box.imPoly, precision=0)
RoundImPoly(box) ==
    LET b == BoundsIm(box) IN BoxFromIm(box, b.xmin, b.xmax, b.ymin, b.ymax)

\* boxObj.is_larger_DimXY(boundsIm2test): does the box reach beyond the bounds, per axis
IsLargerDimXY(box, b2t) ==
    LET b == BoundsIm(box)
    IN  [x |-> b.xmin < b2t.xmin \/ b.xmax > b2t.xmax,
         y |-> b.ymin < b2t.ymin \/ b.ymax > b2t.ymax]

\* move_shapelyPoly_to_image_grid(poly, gt, rows, cols, 'NW'): translate the polygon
\* so that its north-west corner lies on the next pixel edge to the north-west
MoveToImageGrid(box) ==
    LET g  == box.gt.gsd
        dx == (box.poly.xmin - box.gt.ox) % g
        dy == (box.gt.oy - box.poly.ymax) % g
    IN  [box EXCEPT !.poly = Rect(box.poly.xmin - dx, box.poly.xmax - dx,
                                  box.poly.ymin + dy, box.poly.ymax + dy)]

\* get_smallest_boxImYX_that_contains_boxMapYX(boxMapYX, gt) assigned to box.boxImYX
SmallestBoxContaining(poly, box) ==
    LET g == box.gt.gsd
    IN  BoxFromIm(box, FloorDiv(poly.xmin - box.gt.ox, g), CeilDiv(poly.xmax - box.gt.ox, g),
                  FloorDiv(box.gt.oy - poly.ymax, g), CeilDiv(box.gt.oy - poly.ymin, g))


\* ------------------------------------------------------------------- inputs
\* pixel sizes (map units) of the two rasters
GsdVals == {2, 4}
\* both rasters cover this many map units
MapSize == [w |-> 80, h |-> 64]

\* [ref gsd, target gsd, target origin offset x, y, west inset of the reference
\*  footprint, wp, ws]: the scenes the constructor is given; an axis of wp is Null
\*  (None) or <<coordinate>>
Scenes ==
    { <<2, 2,   0,  0, 0, <<Null, Null>>, <<16, 16>>>>,    \* same grid, window fits
      <<2, 2,   0,  0, 0, <<Null, Null>>, <<17, 17>>>>,    \* odd window size
      <<2, 2,   0,  0, 0, <<Null, Null>>, <<8, 8>>>>,      \* window below 16 x 16
      <<4, 2,   0,  0, 0, <<Null, Null>>, <<16, 16>>>>,    \* reference coarser
      <<2, 4,   0,  0, 0, <<Null, Null>>, <<16, 16>>>>,    \* target coarser
      <<4, 4,   2,  0, 0, <<Null, Null>>, <<16, 16>>>>,    \* grids half a pixel apart
      <<4, 4,   0,  0, 6, <<<<2>>, <<0>>>>, <<18, 16>>>>,    \* footprint edge off the grid
      <<2, 2,   0,  0, 0, <<<<30>>, <<0>>>>, <<32, 16>>>>,    \* window clipped by the overlap
      <<2, 2,   0,  0, 0, <<<<0>>, <<8>>>>, <<16, 16>>>>,    \* user window position x = 0
      <<2, 2,   0,  0, 0, <<<<40>>, <<0>>>>, <<16, 16>>>>,    \* wp on the overlap boundary
      <<2, 2,   0,  0, 0, <<<<100>>, <<0>>>>, <<16, 16>>>>,    \* wp far outside the overlap
      <<2, 2,   0,  0, 0, <<<<44>>, <<0>>>>, <<16, 16>>>>,    \* wp just outside the overlap
      <<2, 2,   0, -6, 0, <<Null, <<0>>>>, <<16, 16>>>>,    \* one axis of wp given
      <<2, 2,  62,  0, 0, <<Null, Null>>, <<16, 16>>>>,    \* overlap of 288 pixels
      <<2, 2,  64,  0, 0, <<Null, Null>>, <<16, 16>>>>,    \* overlap of exactly 256 pixels
      <<4, 2,  12,  0, 0, <<Null, Null>>, <<16, 16>>>>,    \* 272 pixels at the coarse grid
      <<4, 2,  16,  0, 0, <<Null, Null>>, <<16, 16>>>>,    \* exactly 256 at the coarse grid
      <<2, 2,  80,  0, 0, <<Null, Null>>, <<16, 16>>>>,    \* footprints touch
      <<2, 2, 100,  0, 0, <<Null, Null>>, <<16, 16>>>> }   \* footprints disjoint

\* (mask_baddata_ref, mask_baddata_tgt): None or <<the half of the raster whose pixels
\* are marked True>>; a mask has the extent and the grid of its raster
MaskPairs ==
    {<<Null, Null>>, <<<<"east">>, Null>>, <<<<"west">>, Null>>, <<Null, <<"east">>>>,
     <<<<"east">>, <<"east">>>>}
\* the scenes that are also run with bad-data masks: no window position given
MaskedScenes ==
    {<<2, 2, 0, 0, 0, <<Null, Null>>, <<16, 16>>>>, <<2, 4, 0, 0, 0, <<Null, Null>>, <<16, 16>>>>}

\* max_shift values given to the constructor
MaxShiftVals == {0, 1, 2}
\* (binary_ws, force_quadratic_win)
WinOptionVals == {<<TRUE, TRUE>>, <<TRUE, FALSE>>, <<FALSE, FALSE>>}
\* passes of the shrink loop at which the 1.5 s wall clock limit is found exceeded
TimeoutPasses == {1, MaxShrinkIter}

Image(gsd, ox, oy, prj, inset) ==
    [gt |-> [ox |-> ox, oy |-> oy, gsd |-> gsd],
     cols |-> MapSize.w \div gsd, rows |-> MapSize.h \div gsd,
     prj |-> prj, inset |-> inset, mask_baddata |-> Null]

NoResult == [x_shift_px |-> Null, y_shift_px |-> Null, x_shift_map |-> Null,
             y_shift_map |-> Null, vec_length_map |-> Null, vec_angle_deg |-> Null,
             updated_map_info |-> Null, shift_reliability |-> Null]

\* the locals of calculate_spatial_shifts: scps (its shape), (x_intshift, y_intshift),
\* valid_invalid, (x_val_shift, y_val_shift), count_iter, (x_totalshift, y_totalshift);
\* validations is the history of the calls of _validate_integer_shifts made so far, each
\* with what it found: "zero" (shift (0,0)), "nonzero", or "none" (no usable SCPS)
NoLocals == [scps |-> Null, intshift |-> Null, valid_invalid |-> None,
             val_shift |-> Null, count_iter |-> 0, totalshift |-> Null,
             validations |-> <<>>]

\* active: a read of coreg_info has called calculate_spatial_shifts and waits for it to
\* return; runs: the calls of calculate_spatial_shifts that reads of coreg_info have made
NoRead == [active |-> FALSE, runs |-> 0]

\* COREG.__init__ up to the first call it makes (lines 205-283)
Init ==
    \E sc \in Scenes, ign \in BOOLEAN, prj \in {"P1", "P2"}, mi \in 1..MaxIter,
       ms \in MaxShiftVals, wo \in WinOptionVals, pf \in BOOLEAN, mk \in MaskPairs :
        /\ prj = "P2" => sc = <<2, 2, 0, 0, 0, <<Null, Null>>, <<16, 16>>>>
        /\ mk # <<Null, Null>> => (sc \in MaskedScenes /\ prj = "P1" /\ ~pf)
        /\ params = [ignore_errors |-> ign, wp |-> sc[6], ws |-> sc[7], max_iter |-> mi,
                     max_shift |-> ms, binary_ws |-> wo[1], force_quadratic_win |-> wo[2],
                     pyfftw |-> pf]
        /\ ref = [Image(sc[1], -(MapSize.w \div 2), MapSize.h \div 2, "P1", sc[5])
                  EXCEPT !.mask_baddata = mk[1]]
        /\ shift = [Image(sc[2], sc[3] - (MapSize.w \div 2), sc[4] + (MapSize.h \div 2),
                          prj, 0)
                    EXCEPT !.mask_baddata = mk[2]]
        /\ pc = "new"
        /\ grid2use = None
        /\ overlap_poly = Null
        /\ overlap_area = Null
        /\ win_pos_XY = sc[6]
        /\ win_size_XY = sc[7]
        /\ matchBox = Null
        /\ otherBox = Null
        /\ imfft_gsd = Null
        /\ matchWin = Null
        /\ otherWin = Null
        /\ fftw_works = None
        /\ fftw_win_size_YX = Null
        /\ tracked_errors = <<>>
        /\ success = None
        /\ raised = None
        /\ loc = NoLocals
        /\ res = NoResult
        /\ _coreg_info = Null
        /\ reading = NoRead
        /\ ret = None

\* an exception leaves the running method: the caller sees it, the object stays as it is
Raise(error) ==
    /\ raised' = error
    /\ pc' = "raised"

\* -------------------------------------------------------------- constructor
\* a projection check that accepts every pair of projections
prj_equal_any(prj1, prj2) == TRUE

\* prj_equal(self.ref.prj, self.shift.prj)
prj_equal(prj1, prj2) == prj1 = prj2

\* a grid choice that prefers the raster with the smaller pixel size
Grid2Use_finer == IF ref.gt.gsd <= shift.gt.gsd THEN "ref" ELSE "shift"

\* self.grid2use (line 286)
Grid2Use == IF shift.gt.gsd <= ref.gt.gsd THEN "ref" ELSE "shift"

\* _get_image_params, _set_outpathes and grid2use (lines 284-286)
GetImageParams ==
    /\ pc = "new"
    /\ IF prj_equal(ref.prj, shift.prj)
       THEN /\ grid2use' = Grid2Use
            /\ pc' = "overlap"
            /\ UNCHANGED raised
       ELSE /\ Raise("UnequalProjections")
            /\ UNCHANGED grid2use
    /\ UNCHANGED <<_coreg_info, reading, params, ref, shift, overlap_poly, overlap_area, win_pos_XY, win_size_XY,
                   matchBox, otherBox, imfft_gsd, matchWin, otherWin, fftw_works,
                   fftw_win_size_YX, tracked_errors, success, loc, res, ret>>

\* px_area of _get_overlap_properties: the pixel area of the raster named by grid2use
PxArea == IF grid2use = "ref" THEN ref.gt.gsd * ref.gt.gsd ELSE shift.gt.gsd * shift.gt.gsd

\* an overlap check that lets an overlap of exactly 16 * 16 pixels pass
OverlapSufficient_inclusive(ov) ==
    /\ ov.poly # Null
    /\ ov.area >= 16 * 16 * PxArea

\* the two assertions of _get_overlap_properties: a non-empty overlap polygon that
\* covers more than 16 * 16 pixels (overlap_area / px_area > 16 * 16)
OverlapSufficient(ov) ==
    /\ ov.poly # Null
    /\ ov.area > 16 * 16 * PxArea

\* _get_overlap_properties (line 290)
GetOverlapProperties ==
    /\ pc = "overlap"
    /\ LET ov == get_overlap_polygon(ImageExtent(ref), ImageExtent(shift))
       IN  /\ overlap_poly' = ov.poly
           /\ overlap_area' = <<ov.area>>
           /\ IF OverlapSufficient(ov)
              THEN pc' = "winpos" /\ UNCHANGED raised
              ELSE Raise("InsufficientOverlap")
    /\ UNCHANGED <<_coreg_info, reading, params, ref, shift, grid2use, win_pos_XY, win_size_XY, matchBox, otherBox,
                   imfft_gsd, matchWin, otherWin, fftw_works, fftw_win_size_YX,
                   tracked_errors, success, loc, res, ret>>


\* truth value of a window coordinate in "wp[0] if wp[0] else ...": None and 0 are false
Truthy(axis) == axis # Null /\ axis[1] # 0

\* im.mask_baddata[int(imY), int(imX)] for imX, imY = mapXY2imXY(wp, im.mask_baddata.gt):
\* the value of the mask pixel that holds the map position wp
MaskPixel(im, wp) ==
    IF im.mask_baddata[1] = "east"
    THEN (wp[1] - im.gt.ox) \div im.gt.gsd >= im.cols \div 2
    ELSE (wp[1] - im.gt.ox) \div im.gt.gsd < im.cols \div 2

\* "im.mask_baddata[int(imY), int(imX)] is True": the mask is a boolean numpy array,
\* its element a numpy.bool_, which is never the object True
PixelIsTrue(im, wp) == FALSE

\* the window position of _get_opt_winpos_winsize and the errors it reports (lines 619-660)
OptWinpos ==
    LET wp0 == params.wp
        c   == Centroid(overlap_poly)
        dflt == <<IF Truthy(wp0[1]) THEN wp0[1][1] ELSE c[1],
                  IF Truthy(wp0[2]) THEN wp0[2][1] ELSE c[2]>>
        \* representative_point(): a point inside the polygon; the centre of a rectangle
        wpN == IF ContainsPoint(overlap_poly, dflt) THEN dflt ELSE c
        wpU == <<wp0[1][1], wp0[2][1]>>
        hasNone == wp0[1] = Null \/ wp0[2] = Null
        wp == IF hasNone THEN wpN ELSE wpU
        bad(im) == IF im.mask_baddata # Null /\ PixelIsTrue(im, wp)
                   THEN <<"WindowInBadData">> ELSE <<>>
    IN  [wp |-> wp,
         assertOK |-> hasNone => ContainsPoint(overlap_poly, wp),
         errs |-> (IF ~hasNone /\ ~ContainsPoint(overlap_poly, wp)
                   THEN <<"WindowOutsideOverlap">> ELSE <<>>) \o bad(ref) \o bad(shift)]

\* _get_opt_winpos_winsize (line 301)
GetOptWinposWinsize ==
    /\ pc = "winpos"
    /\ LET o  == OptWinpos
           st == handle_errors(ErrState, o.errs)
       IN  IF ~o.assertOK
           THEN Raise("AssertionError") /\ UNCHANGED <<tracked_errors, success, win_pos_XY, win_size_XY>>
           ELSE /\ tracked_errors' = st.log
                /\ success' = st.success
                /\ IF st.raised # None
                   THEN Raise(st.raised) /\ UNCHANGED <<win_pos_XY, win_size_XY>>
                   ELSE /\ win_pos_XY' = <<<<o.wp[1]>>, <<o.wp[2]>>>>
                        /\ win_size_XY' = params.ws
                        /\ pc' = "plan"
                        /\ UNCHANGED raised
    /\ UNCHANGED <<_coreg_info, reading, params, ref, shift, grid2use, overlap_poly, overlap_area, matchBox, otherBox,
                   imfft_gsd, matchWin, otherWin, fftw_works, fftw_win_size_YX, loc, res, ret>>

\* the rasters of the matching window and of the other window
MatchIm == IF grid2use = "ref" THEN ref ELSE shift
OtherIm == IF grid2use = "ref" THEN shift ELSE ref
\* overlapWin = boxObj(mapPoly=self.overlap_poly, gt=self.ref.gt)
OverlapWin == [poly |-> overlap_poly, gt |-> ref.gt]

\* the shrink by one pixel on the axes on which the box reaches beyond the overlap
ShrinkLarger(tested, box) ==
    LET lg == IsLargerDimXY(tested, BoundsIm(OverlapWin))
    IN  BufferImXY(box, IF lg.x THEN -1 ELSE 0, IF lg.y THEN -1 ELSE 0)

\* the while loop of lines 717-733 from pass n on; the wall clock limit is found
\* exceeded in pass timeoutAt at the latest
RECURSIVE ShrinkLoop(_, _, _, _)
ShrinkLoop(mB, oB, n, timeoutAt) ==
    IF Within(oB.poly, overlap_poly) THEN [m |-> mB, o |-> oB, err |-> FALSE]
    ELSE LET mB2 == ShrinkLarger(oB, mB)
             oB2 == SmallestBoxContaining(mB2.poly, oB)
         IN  IF Area(oB.poly) = Area(oB2.poly) \/ n >= timeoutAt
             THEN [m |-> mB2, o |-> oB2, err |-> TRUE]
             ELSE ShrinkLoop(mB2, oB2, n + 1, timeoutAt)

\* an output validation that accepts boxes of 8 x 8 pixels
TooSmall_8(box) ==
    IF ImDimsYX(box)[1] < 8 \/ ImDimsYX(box)[2] < 8 THEN <<"WindowTooSmall">> ELSE <<>>

\* the output validation of lines 736-741, per box
TooSmall(box) ==
    IF ImDimsYX(box)[1] < 16 \/ ImDimsYX(box)[2] < 16 THEN <<"WindowTooSmall">> ELSE <<>>

\* within_equal of line 745
within_equal(inner, outer) == Within(inner, outer) \/ inner = outer

\* (x, y) of self.win_pos_XY
WinPos == <<win_pos_XY[1][1], win_pos_XY[2][1]>>

\* matchBox and otherBox as first built around the window position (lines 672-680)
MatchBox0 ==
    BoxFromWpWs(WinPos, <<win_size_XY[1] * MatchIm.gt.gsd, win_size_XY[2] * MatchIm.gt.gsd>>,
                MatchIm.gt)
OtherBox0 ==
    BoxFromWpWs(WinPos, <<win_size_XY[1] * OtherIm.gt.gsd, win_size_XY[2] * OtherIm.gt.gsd>>,
                OtherIm.gt)

\* lines 703-706: a matchBox that left the overlap when moved to the grid loses a pixel
\* per side on the axes concerned
ShrinkIntoOverlap(mB) ==
    IF ~Within(mB.poly, overlap_poly) THEN ShrinkLarger(mB, mB) ELSE mB

\* lines 712-714: otherBox has to contain matchBox
OtherBoxFor(mB, oB) ==
    IF ~(Within(mB.poly, oB.poly) \/ mB.poly = oB.poly)
    THEN SmallestBoxContaining(mB.poly, oB) ELSE oB

\* the boxes the shrink loop leaves and the errors of lines 727-741
PlanResult(lp) ==
    [crash |-> FALSE, matchBox |-> lp.m, otherBox |-> lp.o,
     errs |-> (IF lp.err THEN <<"ShrinkageDeadlock">> ELSE <<>>)
              \o TooSmall(lp.m) \o TooSmall(lp.o)]

\* lines 709-733 for the matchBox moved to the grid
PlanFromGrid(mB, timeoutAt) ==
    PlanResult(ShrinkLoop(mB, OtherBoxFor(mB, OtherBox0), 1, timeoutAt))

\* lines 683-741 for the intersection of matchBox and overlap.  The branch of lines
\* 687-695 is never taken: matchBox.mapPoly is already the intersection with the
\* overlap, so the two areas compared there are equal.  An empty intersection has no
\* bounds: the geometry calls that follow fail.
PlanFromClip(clip, timeoutAt) ==
    IF clip = Null THEN [crash |-> TRUE]
    ELSE PlanFromGrid(RoundImPoly(ShrinkIntoOverlap(
                          MoveToImageGrid([poly |-> clip, gt |-> MatchIm.gt]))), timeoutAt)

\* the boxes _get_clip_window_properties computes (lines 672-741) and the errors it
\* reports on the way
PlanWindows(timeoutAt) ==
    PlanFromClip(Intersection(MatchBox0.poly, overlap_poly), timeoutAt)

\* a planner that publishes its boxes whether or not it has reported an error
PlanPublishes_always(st) == TRUE

\* "if self.success is not False" of line 743: the boxes are checked and published
PlanPublishes(st) == st.success # "False"

\* the assertions of lines 745-747
PlanAsserts(p) ==
    /\ within_equal(p.matchBox.poly, p.otherBox.poly)
    /\ within_equal(p.otherBox.poly, overlap_poly)

\* the end of _get_clip_window_properties for the planned boxes p and the error state
\* st after the reports (lines 743-753)
PublishPlan(p, st) ==
    /\ tracked_errors' = st.log
    /\ success' = st.success
    /\ IF st.raised # None
       THEN Raise(st.raised) /\ UNCHANGED <<matchBox, otherBox, imfft_gsd>>
       ELSE IF ~PlanPublishes(st)
       THEN pc' = "finish" /\ UNCHANGED <<raised, matchBox, otherBox, imfft_gsd>>
       ELSE IF ~PlanAsserts(p)
       THEN Raise("AssertionError") /\ UNCHANGED <<matchBox, otherBox, imfft_gsd>>
       ELSE /\ imfft_gsd' = <<IF grid2use = "ref" THEN ref.gt.gsd ELSE shift.gt.gsd>>
            /\ matchBox' = p.matchBox
            /\ otherBox' = p.otherBox
            /\ pc' = "finish"
            /\ UNCHANGED raised

PlanOutcome(p) ==
    IF p.crash
    THEN /\ Raise("Exception")
         /\ UNCHANGED <<tracked_errors, success, matchBox, otherBox, imfft_gsd>>
    ELSE PublishPlan(p, handle_errors(ErrState, p.errs))

\* _get_clip_window_properties (line 304)
GetClipWindowProperties ==
    /\ pc = "plan"
    /\ \E t \in TimeoutPasses : PlanOutcome(PlanWindows(t))
    /\ UNCHANGED <<_coreg_info, reading, params, ref, shift, grid2use, overlap_poly, overlap_area, win_pos_XY,
                   win_size_XY, matchWin, otherWin, fftw_works, fftw_win_size_YX, loc, res, ret>>

\* an end of COREG.__init__ that resets success to None whatever planning found
InitFinish_unknown ==
    /\ pc = "finish"
    /\ success' = None
    /\ pc' = "constructed"
    /\ UNCHANGED <<_coreg_info, reading, params, ref, shift, grid2use, overlap_poly, overlap_area, win_pos_XY,
                   win_size_XY, matchBox, otherBox, imfft_gsd, matchWin, otherWin, fftw_works,
                   fftw_win_size_YX, tracked_errors, raised, loc, res, ret>>

\* the end of COREG.__init__ (lines 310-311); boxMapYX of a box is a non-empty list
InitFinish ==
    /\ pc = "finish"
    /\ success' = IF success = "False" THEN "False" ELSE None
    /\ pc' = "constructed"
    /\ UNCHANGED <<_coreg_info, reading, params, ref, shift, grid2use, overlap_poly, overlap_area, win_pos_XY,
                   win_size_XY, matchBox, otherBox, imfft_gsd, matchWin, otherWin, fftw_works,
                   fftw_win_size_YX, tracked_errors, raised, loc, res, ret>>

\* ------------------------------------------------- calculate_spatial_shifts
\* a calculate_spatial_shifts that reads the windows before it looks at success
CalcFail_reads ==
    /\ pc \in {"constructed", "returned"}
    /\ pc = "returned" => ~reading.active
    /\ success = "False"
    /\ ret' = "fail"
    /\ pc' = "returned"
    /\ matchWin' = [shape |-> <<16, 16>>, imID |-> grid2use]
    /\ UNCHANGED <<_coreg_info, reading, params, ref, shift, grid2use, overlap_poly, overlap_area, win_pos_XY,
                   win_size_XY, matchBox, otherBox, imfft_gsd, otherWin, fftw_works,
                   fftw_win_size_YX, tracked_errors, success, raised, loc, res>>

\* "if self.success is False: return 'fail'" (lines 1229-1230), for the call that follows
\* the constructor and for a call a caller repeats after a run that has failed
CalcFail ==
    /\ pc \in {"constructed", "returned"}
    /\ pc = "returned" => ~reading.active
    /\ success = "False"
    /\ ret' = "fail"
    /\ pc' = "returned"
    /\ UNCHANGED <<_coreg_info, reading, params, ref, shift, grid2use, overlap_poly, overlap_area, win_pos_XY,
                   win_size_XY, matchBox, otherBox, imfft_gsd, matchWin, otherWin, fftw_works,
                   fftw_win_size_YX, tracked_errors, success, raised, loc, res>>

\* get_GeoArrayPosition_from_boxImYX and the assertion on it (lines 771-774, 782-785):
\* rS, rE, cS, cE are not negative and rE, cE do not exceed the raster
SubsetInside(box, im) ==
    LET b == BoundsIm(box)
    IN  /\ b.ymin >= 0 /\ b.ymax - 1 >= 0 /\ b.xmin >= 0 /\ b.xmax - 1 >= 0
        /\ b.ymax - 1 <= im.rows /\ b.xmax - 1 <= im.cols

\* the subset read full[rS:rE + 1, cS:cE + 1] with get_subset_GeoTransform: a window is
\* [shape (rows, cols), gt, imID]; read keeps the shape of the array as it was read
SubsetRead(box, im, imID) ==
    LET b == BoundsIm(box)
    IN  [shape |-> <<Min(b.ymax, im.rows) - b.ymin, Min(b.xmax, im.cols) - b.xmin>>,
         read  |-> <<Min(b.ymax, im.rows) - b.ymin, Min(b.xmax, im.cols) - b.xmin>>,
         gt    |-> [ox |-> box.gt.ox + b.xmin * box.gt.gsd,
                    oy |-> box.gt.oy - b.ymin * box.gt.gsd, gsd |-> box.gt.gsd],
         imID  |-> imID]

\* (rows, cols) by which the array warp_ndarray returns may differ from the requested
\* out_bounds / out_gsd
WarpDeviations == {<<0, 0>>, <<1, 1>>, <<0, -1>>}

\* warp_ndarray(otherWin, out_gsd = imfft_gsd, out_bounds = matchBox.boundsMap)
Warp(win, shapeYX, dev) ==
    [win EXCEPT !.shape = <<shapeYX[1] + dev[1], shapeYX[2] + dev[2]>>,
                !.gt = [ox |-> matchBox.poly.xmin, oy |-> matchBox.poly.ymax,
                        gsd |-> imfft_gsd[1]]]

\* i if i % 2 == 0 else i - 1
EvenDown(i) == IF i % 2 = 0 THEN i ELSE i - 1

\* arr[:rows, :cols]
Trim(win, rows, cols) == [win EXCEPT !.shape = <<Min(win.shape[1], rows), Min(win.shape[2], cols)>>]

\* GeoArray.box: the box of the array on its own geotransform
WinBox(win) ==
    [poly |-> Rect(win.gt.ox, win.gt.ox + win.shape[2] * win.gt.gsd,
                   win.gt.oy - win.shape[1] * win.gt.gsd, win.gt.oy),
     gt   |-> win.gt]

\* lines 823-835 for the windows mW, oW as read and resampled: the shape check, the
\* trim to even row and column counts and the update of the boxes
EqualizeWindows(mW, oW, st, rows, cols) ==
    /\ tracked_errors' = st.log
    /\ success' = st.success
    /\ IF st.raised # None
       THEN /\ Raise(st.raised)
            /\ matchWin' = mW
            /\ otherWin' = oW
            /\ UNCHANGED <<matchBox, otherBox>>
       ELSE /\ matchWin' = Trim(mW, rows, cols)
            /\ otherWin' = Trim(oW, rows, cols)
            /\ IF <<Min(mW.shape[1], rows), Min(mW.shape[2], cols)>> # ImDimsYX(matchBox)
               THEN /\ matchBox' = WinBox(Trim(mW, rows, cols))
                    /\ otherBox' = WinBox(Trim(oW, rows, cols))
               ELSE UNCHANGED <<matchBox, otherBox>>
            /\ pc' = "scps"
            /\ UNCHANGED raised

\* lines 771-828 for the subset reads mW, oW; dev is the deviation of the warp.
\* xygrid_specs compares origin and pixel size of the two windows.
ReadWindows(mW, oW, oWarped, dev) ==
    /\ mW.gt = oW.gt => dev = <<0, 0>>
    /\ IF ~SubsetInside(matchBox, MatchIm)
       THEN /\ Raise("AssertionError")
            /\ UNCHANGED <<matchWin, otherWin, matchBox, otherBox, tracked_errors, success>>
       ELSE IF ~SubsetInside(otherBox, OtherIm)
       THEN /\ Raise("AssertionError")
            /\ matchWin' = mW
            /\ UNCHANGED <<otherWin, matchBox, otherBox, tracked_errors, success>>
       ELSE IF mW.gt = oW.gt
       THEN EqualizeWindows(mW, oW,
                            handle_errors(ErrState, IF mW.shape # oW.shape
                                                    THEN <<"WindowMismatch">> ELSE <<>>),
                            EvenDown(mW.shape[1]), EvenDown(mW.shape[2]))
       ELSE EqualizeWindows(mW, oWarped,
                            handle_errors(ErrState, IF mW.shape # oWarped.shape
                                                    THEN <<"WindowMismatch">> ELSE <<>>),
                            EvenDown(mW.shape[1]), EvenDown(mW.shape[2]))

\* the warped other window for the subset reads mW, oW
ReadAndWarp(mW, oW, dev) == ReadWindows(mW, oW, Warp(oW, mW.shape, dev), dev)

\* _get_image_windows_to_match (line 1236)
GetImageWindowsToMatch ==
    /\ pc = "constructed"
    /\ success # "False"
    /\ \E dev \in WarpDeviations :
        ReadAndWarp(SubsetRead(matchBox, MatchIm, grid2use),
                    SubsetRead(otherBox, OtherIm, IF grid2use = "ref" THEN "shift" ELSE "ref"),
                    dev)
    /\ UNCHANGED <<_coreg_info, reading, params, ref, shift, grid2use, overlap_poly, overlap_area, win_pos_XY,
                   win_size_XY, imfft_gsd, fftw_works, fftw_win_size_YX, loc, res, ret>>

\* binarySizes of _shrink_winsize_to_binarySize
BinarySizes == {2^i : i \in 3..13}
SetMax(S) == CHOOSE m \in S : \A x \in S : x <= m

\* a binary sizing that takes the smallest binary size on each axis
shrink_winsize_smallest(win_shape_YX) ==
    IF win_shape_YX[1] >= 8 /\ win_shape_YX[2] >= 8 THEN <<8, 8>> ELSE Null

\* _shrink_winsize_to_binarySize(win_shape_YX) without target_size: the largest binary
\* size that fits, per axis; None if an axis is shorter than 8
shrink_winsize_to_binarySize(win_shape_YX) ==
    LET possibSizes_X == {i \in BinarySizes : i <= win_shape_YX[2]}
        possibSizes_Y == {i \in BinarySizes : i <= win_shape_YX[1]}
    IN  IF possibSizes_X # {} /\ possibSizes_Y # {}
        THEN <<SetMax(possibSizes_Y), SetMax(possibSizes_X)>>
        ELSE Null

\* "(min(wsYX),) * 2 if self.force_quadratic_win else wsYX) if wsYX else None"
Quadratic(w) ==
    IF w = Null THEN Null
    ELSE IF params.force_quadratic_win THEN <<Min(w[1], w[2]), Min(w[1], w[2])>>
    ELSE w

\* wsYX of _calc_shifted_cross_power_spectrum (lines 878-879)
FftWinSize(shapeYX) ==
    Quadratic(IF params.binary_ws THEN shrink_winsize_to_binarySize(shapeYX) ELSE shapeYX)

\* "if wsYX not in [None, (0, 0)]" (line 881)
Computable(wsYX) == wsYX # Null /\ wsYX # <<0, 0>>

\* a flag that is set again by every forward FFT
FftwAfter_retry(cur, degenerate) ==
    IF params.pyfftw
    THEN IF degenerate THEN "False" ELSE "True"
    ELSE cur

\* self.fftw_works after the forward FFT (lines 899-917); degenerate: pyfftw returned an
\* array of standard deviation 0
FftwAfter(cur, degenerate) ==
    IF params.pyfftw /\ cur # "False"
    THEN IF degenerate THEN "False" ELSE "True"
    ELSE cur

\* lines 881-953 for the FFT window size wsYX
ScpsFor(st, fw, sameShape, degenerate, wsYX) ==
    [assertOK |-> sameShape,
     \* an FFT of an array without rows or columns fails
     crash    |-> Computable(wsYX) /\ (wsYX[1] = 0 \/ wsYX[2] = 0),
     scps     |-> IF Computable(wsYX) THEN wsYX ELSE Null,
     st       |-> IF Computable(wsYX) THEN st ELSE handle_error(st, "WindowTooSmall"),
     fftw_works |-> IF Computable(wsYX) THEN FftwAfter(fw, degenerate) ELSE fw,
     fftw_win_size_YX |-> wsYX]

\* _calc_shifted_cross_power_spectrum(im0, im1) on arrays of the given shapes: the SCPS
\* (its shape) or None with a WindowTooSmall error
calc_shifted_cross_power_spectrum(st, fw, shape0, shape1, degenerate) ==
    ScpsFor(st, fw, shape0 = shape1, degenerate, FftWinSize(shape0))

\* lines 1253-1259 for the outcome c of the SCPS computation
InitialScps(c) ==
    IF ~c.assertOK
    THEN /\ Raise("AssertionError")
         /\ UNCHANGED <<tracked_errors, success, fftw_works, fftw_win_size_YX, loc, ret>>
    ELSE IF c.crash
    THEN /\ Raise("Exception")
         /\ UNCHANGED <<tracked_errors, success, fftw_works, fftw_win_size_YX, loc, ret>>
    ELSE /\ tracked_errors' = c.st.log
         /\ success' = c.st.success
         /\ IF c.st.raised # None
            THEN /\ Raise(c.st.raised)
                 /\ UNCHANGED <<fftw_works, fftw_win_size_YX, loc, ret>>
            ELSE /\ fftw_works' = c.fftw_works
                 /\ fftw_win_size_YX' = c.fftw_win_size_YX
                 /\ UNCHANGED raised
                 /\ IF c.scps = Null
                    THEN ret' = "fail" /\ pc' = "returned" /\ UNCHANGED loc
                    ELSE /\ loc' = [loc EXCEPT !.scps = c.scps]
                         /\ pc' = "intshift"
                         /\ UNCHANGED ret

\* the FFT outcomes an SCPS computation on arrays of the given shape can meet
FftOutcomes(shapeYX) ==
    {d \in BOOLEAN : d => /\ Computable(FftWinSize(shapeYX))
                          /\ FftwAfter(fftw_works, TRUE) # fftw_works}

\* the initial SCPS of calculate_spatial_shifts (lines 1253-1259)
CalcShiftedCrossPowerSpectrum ==
    /\ pc = "scps"
    /\ \E degenerate \in FftOutcomes(matchWin.shape) :
        InitialScps(calc_shifted_cross_power_spectrum(ErrState, fftw_works, matchWin.shape,
                                                      otherWin.shape, degenerate))
    /\ UNCHANGED <<_coreg_info, reading, params, ref, shift, grid2use, overlap_poly, overlap_area, win_pos_XY,
                   win_size_XY, matchBox, otherBox, imfft_gsd, matchWin, otherWin, res>>

\* (x, y) shifts that the peak of an SCPS is taken to yield; the last one is that of a
\* peak in the first column of an SCPS of 2 * (MaxIntShift + 1) columns
PeakCandidates ==
    {<<0, 0>>, <<1, 0>>, <<0, -1>>, <<MaxIntShift, 0>>, <<-(MaxIntShift + 1), 0>>}

\* _get_shifts_from_peakpos: the peak lies in the array, so the shift on an axis of
\* length n lies in -(n // 2) .. n - 1 - n // 2
PeakShifts(scps) ==
    {p \in PeakCandidates :
        /\ -(scps[2] \div 2) <= p[1] /\ p[1] <= scps[2] - 1 - (scps[2] \div 2)
        /\ -(scps[1] \div 2) <= p[2] /\ p[2] <= scps[1] - 1 - (scps[1] \div 2)}

\* count_iter = 1 and _calc_integer_shifts (lines 1264-1269)
CalcIntegerShifts ==
    /\ pc = "intshift"
    /\ \E p \in PeakShifts(loc.scps) :
        /\ loc' = [loc EXCEPT !.count_iter = 1, !.intshift = p]
        /\ IF p = <<0, 0>>
           THEN success' = "True" /\ pc' = "total"
           ELSE pc' = "validate" /\ UNCHANGED success
    /\ UNCHANGED <<_coreg_info, reading, params, ref, shift, grid2use, overlap_poly, overlap_area, win_pos_XY,
                   win_size_XY, matchBox, otherBox, imfft_gsd, matchWin, otherWin, fftw_works,
                   fftw_win_size_YX, tracked_errors, raised, res, ret>>

\* the SCPS computation c has given an SCPS of at least 3 x 3 (lines 1074-1075)
Usable(c) == ~c.crash /\ c.st.raised = None /\ c.scps # Null /\ c.scps[1] >= 3 /\ c.scps[2] >= 3

\* shape of the arrays _get_grossly_deshifted_images returns for im0 of shape shapeYX
\* (even row and column count) re-centred by the shift s = (x, y)
GrosslyDeshiftedShape(shapeYX, s) ==
    LET maxposs_winsz_x == Max(0, shapeYX[2] - 2 * Abs(s[1]))
        maxposs_winsz_y == Max(0, shapeYX[1] - 2 * Abs(s[2]))
        q == Min(maxposs_winsz_x, maxposs_winsz_y)
    IN  IF params.force_quadratic_win THEN <<q, q>> ELSE <<maxposs_winsz_y, maxposs_winsz_x>>

\* the result of _validate_integer_shifts for a nonzero shift, c being the outcome of
\* its SCPS computation and peak the shift that SCPS yields: valid_invalid,
\* (x_shift, y_shift), scps, and found for the history
ValidationOf(c, peak) ==
    [crash |-> c.crash,
     valid_invalid |-> IF Usable(c) /\ peak = <<0, 0>> THEN "valid" ELSE "invalid",
     val_shift |-> IF Usable(c) THEN peak ELSE Null,
     scps |-> c.scps,
     st |-> IF ~c.crash /\ c.st.raised = None /\ c.scps # Null /\ ~Usable(c)
            THEN handle_error(c.st, "WindowTooSmall") ELSE c.st,
     fftw_works |-> c.fftw_works,
     fftw_win_size_YX |-> c.fftw_win_size_YX,
     found |-> IF ~Usable(c) THEN "none" ELSE IF peak = <<0, 0>> THEN "zero" ELSE "nonzero"]

\* _validate_integer_shifts(im0, im1, x_intshift, y_intshift) for im0, im1 of shape g
\* after the re-centring
ValidateDeshifted(st, fw, s, peak, degenerate, g) ==
    IF s = <<0, 0>>
    THEN [crash |-> FALSE, valid_invalid |-> "valid", val_shift |-> <<0, 0>>, scps |-> Null,
          st |-> st, fftw_works |-> fw, fftw_win_size_YX |-> fftw_win_size_YX,
          found |-> "zero"]
    ELSE ValidationOf(calc_shifted_cross_power_spectrum(st, fw, g, g, degenerate), peak)

\* _validate_integer_shifts(im0, im1, x_intshift, y_intshift); peak is the shift the
\* recomputed SCPS yields
validate_integer_shifts(st, fw, shapeYX, s, peak, degenerate) ==
    ValidateDeshifted(st, fw, s, peak, degenerate, GrosslyDeshiftedShape(shapeYX, s))

\* the peaks a validation can meet whose SCPS computation ends as c
PeaksOf(c) == IF Usable(c) THEN PeakShifts(c.scps) ELSE {<<0, 0>>}

\* the peaks and FFT outcomes a validation of the shift s can meet
ValidationInputs(s) ==
    PeaksOf(calc_shifted_cross_power_spectrum(ErrState, fftw_works,
                GrosslyDeshiftedShape(matchWin.shape, s),
                GrosslyDeshiftedShape(matchWin.shape, s), FALSE))
    \X FftOutcomes(GrosslyDeshiftedShape(matchWin.shape, s))

\* what a call of _validate_integer_shifts that ends as v leaves in the object and in
\* the locals of calculate_spatial_shifts; an error raised in it leaves the locals
\* as they were.  accepted: the call is the one of line 1291, which sets success and
\* the integer shifts on "valid"
Validated(v, count_iter, accepted) ==
    /\ tracked_errors' = v.st.log
    /\ IF v.crash
       THEN /\ Raise("Exception")
            /\ loc' = [loc EXCEPT !.count_iter = count_iter,
                                  !.validations = Append(@, v.found)]
            /\ UNCHANGED <<success, fftw_works, fftw_win_size_YX>>
       ELSE IF v.st.raised # None
       THEN /\ Raise(v.st.raised)
            /\ success' = v.st.success
            /\ loc' = [loc EXCEPT !.count_iter = count_iter,
                                  !.validations = Append(@, v.found)]
            /\ fftw_works' = v.fftw_works
            /\ fftw_win_size_YX' = IF v.scps # Null THEN v.fftw_win_size_YX
                                   ELSE fftw_win_size_YX
       ELSE /\ fftw_works' = v.fftw_works
            /\ fftw_win_size_YX' = v.fftw_win_size_YX
            /\ success' = IF accepted /\ v.valid_invalid = "valid" THEN "True"
                          ELSE v.st.success
            /\ loc' = [loc EXCEPT !.count_iter = count_iter,
                                  !.valid_invalid = v.valid_invalid,
                                  !.val_shift = v.val_shift, !.scps = v.scps,
                                  !.intshift = IF accepted /\ v.valid_invalid = "valid"
                                               THEN v.val_shift ELSE @,
                                  !.validations = Append(@, v.found)]
            /\ pc' = "loop"
            /\ UNCHANGED raised

\* the first validation (lines 1271-1272)
ValidateIntegerShifts ==
    /\ pc = "validate"
    /\ \E x \in ValidationInputs(loc.intshift) :
        Validated(validate_integer_shifts(ErrState, fftw_works, matchWin.shape, loc.intshift,
                                          x[1], x[2]),
                  loc.count_iter, FALSE)
    /\ UNCHANGED <<_coreg_info, reading, params, ref, shift, grid2use, overlap_poly, overlap_area, win_pos_XY,
                   win_size_XY, matchBox, otherBox, imfft_gsd, matchWin, otherWin, res, ret>>

\* an iteration budget that is checked one pass too late
BudgetExceeded_late(count_iter) == count_iter > params.max_iter + 1

\* "if count_iter > self.max_iter" (line 1277)
BudgetExceeded(count_iter) == count_iter > params.max_iter

\* line 1278 for the error state st after the report of NoMatchFound
NoMatch(st) ==
    /\ tracked_errors' = st.log
    /\ success' = st.success
    /\ IF st.raised # None THEN Raise(st.raised)
       ELSE pc' = "total" /\ UNCHANGED raised

\* one evaluation of the while condition of line 1274 and, if it holds, one pass of the
\* loop body up to the call of _validate_integer_shifts (lines 1275-1290)
ValidationLoop ==
    /\ pc = "loop"
    /\ \/ /\ loc.valid_invalid = "valid"
          /\ pc' = "total"
          /\ UNCHANGED <<tracked_errors, success, raised, fftw_works, fftw_win_size_YX, loc>>
       \/ /\ loc.valid_invalid # "valid"
          /\ BudgetExceeded(loc.count_iter + 1)
          /\ NoMatch(handle_error(ErrState, "NoMatchFound"))
          /\ loc' = [loc EXCEPT !.count_iter = @ + 1]
          /\ UNCHANGED <<fftw_works, fftw_win_size_YX>>
       \/ /\ loc.valid_invalid # "valid"
          /\ ~BudgetExceeded(loc.count_iter + 1)
          /\ loc.val_shift = Null
          /\ success' = "False"
          /\ loc' = [loc EXCEPT !.count_iter = @ + 1]
          /\ pc' = "total"
          /\ UNCHANGED <<tracked_errors, raised, fftw_works, fftw_win_size_YX>>
       \/ /\ loc.valid_invalid # "valid"
          /\ ~BudgetExceeded(loc.count_iter + 1)
          /\ loc.val_shift # Null
          /\ loc' = [loc EXCEPT !.count_iter = @ + 1]
          /\ pc' = "revalidate"
          /\ UNCHANGED <<tracked_errors, success, raised, fftw_works, fftw_win_size_YX>>
    /\ UNCHANGED <<_coreg_info, reading, params, ref, shift, grid2use, overlap_poly, overlap_area, win_pos_XY,
                   win_size_XY, matchBox, otherBox, imfft_gsd, matchWin, otherWin, res, ret>>

\* the validation of the loop body and what follows it in the pass (lines 1291-1296)
RevalidateIntegerShifts ==
    /\ pc = "revalidate"
    /\ \E x \in ValidationInputs(loc.val_shift) :
        Validated(validate_integer_shifts(ErrState, fftw_works, matchWin.shape,
                                          loc.val_shift, x[1], x[2]),
                  loc.count_iter, TRUE)
    /\ UNCHANGED <<_coreg_info, reading, params, ref, shift, grid2use, overlap_poly, overlap_area, win_pos_XY,
                   win_size_XY, matchBox, otherBox, imfft_gsd, matchWin, otherWin, res, ret>>

\* the sub-pixel shifts (x, y) that _calc_subpixel_shifts is taken to yield
SubShifts == {<<Rat(0, 1), Rat(0, 1)>>, <<Rat(1, 2), Rat(0, 1)>>, <<Rat(-1, 4), Rat(1, 2)>>}
\* values of _calc_shift_reliability
ReliabilityVals == {0, 100}

\* a refinement that is attempted whatever success is
RefinesShift_always(s) == TRUE

\* "if self.success or self.success is None" (line 1299)
RefinesShift(s) == s \in {"True", None}

\* _get_total_shifts
get_total_shifts(intshift, subshift) ==
    <<RatAdd(RatOfInt(intshift[1]), subshift[1]), RatAdd(RatOfInt(intshift[2]), subshift[2])>>

\* a max_shift check that looks at the x axis only
ExceedsMaxShift_x(total) == RatGt(RatAbs(total[1]), RatOfInt(params.max_shift))

\* "max([abs(x_totalshift), abs(y_totalshift)]) > self.max_shift" (line 1304)
ExceedsMaxShift(total) ==
    RatGt(RatMax(RatAbs(total[1]), RatAbs(total[2])), RatOfInt(params.max_shift))

\* shift fields that are assigned before the max_shift check
StoresShift_always(total) == TRUE

\* the else branch of line 1312: the shift is accepted and stored
StoresShift(total) == ~ExceedsMaxShift(total)

\* result fields whose map shift takes the row axis as pointing north
ShiftResult_rows_north(total) ==
    LET gsd_factor == Rat(imfft_gsd[1], shift.gt.gsd)
        x_px  == RatMul(total[1], gsd_factor)
        y_px  == RatMul(total[2], gsd_factor)
        x_map == RatMul(x_px, RatOfInt(shift.gt.gsd))
        y_map == RatMul(y_px, RatOfInt(shift.gt.gsd))
    IN  [res EXCEPT !.x_shift_px = x_px, !.y_shift_px = y_px,
                    !.x_shift_map = x_map, !.y_shift_map = y_map,
                    !.vec_length_map = [sqrt_of |-> RatAdd(RatMul(x_map, x_map),
                                                            RatMul(y_map, y_map))],
                    !.vec_angle_deg = [angle_to_north_of |-> <<x_px, y_px>>]]

\* the result fields assigned in lines 1314-1324; the vector length is the square
\* root of sqrt_of, the angle that of the pixel shift vector to north
ShiftResult(total) ==
    LET gsd_factor == Rat(imfft_gsd[1], shift.gt.gsd)
        x_px  == RatMul(total[1], gsd_factor)
        y_px  == RatMul(total[2], gsd_factor)
        \* imXY2mapXY with gt = (ox, gsd, 0, oy, 0, -gsd), minus the origin
        x_map == RatMul(x_px, RatOfInt(shift.gt.gsd))
        y_map == RatMul(y_px, RatOfInt(-shift.gt.gsd))
    IN  [res EXCEPT !.x_shift_px = x_px, !.y_shift_px = y_px,
                    !.x_shift_map = x_map, !.y_shift_map = y_map,
                    !.vec_length_map = [sqrt_of |-> RatAdd(RatMul(x_map, x_map),
                                                            RatMul(y_map, y_map))],
                    !.vec_angle_deg = [angle_to_north_of |-> <<x_px, y_px>>]]

\* truth value of a shift field: None and 0.0 are false
NonZero(x) == x # Null /\ x.n # 0

\* lines 1340-1345: _get_updated_map_info and _calc_shift_reliability; the map info
\* holds the shifted origin of the target
WithMapInfo(r, reliability) ==
    IF NonZero(r.x_shift_px) \/ NonZero(r.y_shift_px)
    THEN [r EXCEPT !.updated_map_info =
                       [x |-> RatAdd(RatOfInt(shift.gt.ox), r.x_shift_map),
                        y |-> RatAdd(RatOfInt(shift.gt.oy), r.y_shift_map)],
                   !.shift_reliability = <<reliability>>]
    ELSE r

\* the dictionary built by the coreg_info property (lines 1370-1380) from the result
\* fields r; 'corrected_shifts_px' and 'corrected_shifts_map' are dictionaries of their own
NewCoregInfo(r, succ) ==
    [corrected_shifts_px  |-> [x |-> r.x_shift_px,  y |-> r.y_shift_px],
     corrected_shifts_map |-> [x |-> r.x_shift_map, y |-> r.y_shift_map],
     updated_map_info     |-> r.updated_map_info,
     success              |-> succ]

\* the coreg_info property once success is not None (lines 1365-1381): self._coreg_info
\* after the access, for self._coreg_info = info before it
coreg_info(info, r, succ) == IF info # Null THEN info ELSE NewCoregInfo(r, succ)

\* a property that also computes for an object that has failed
RunsCalculation_unfailed(info, succ) == info = Null /\ succ # "True"

\* the coreg_info property (lines 1365-1368) calls calculate_spatial_shifts: there is no
\* dictionary yet and success is None
RunsCalculation(info, succ) == info = Null /\ succ = None

\* "*= -1" on both entries of a shift dictionary
Inverted(d) == [x |-> RatMul(d.x, RatOfInt(-1)), y |-> RatMul(d.y, RatOfInt(-1))]

\* _get_inverted_coreg_info (lines 1387-1391): copy() copies the outer dictionary only,
\* so the two shift dictionaries that are multiplied by -1 are those of self._coreg_info;
\* the keys assigned in lines 1392-1401 are replaced in the copy alone.
\* The value is self._coreg_info after the call
get_inverted_coreg_info(info, r, succ) ==
    [coreg_info(info, r, succ) EXCEPT !.corrected_shifts_px  = Inverted(@),
                                      !.corrected_shifts_map = Inverted(@)]

\* _get_deshifted_otherWin (line 1115): self._coreg_info after the call
get_deshifted_otherWin(info, r, succ) ==
    IF otherWin.imID = "ref" THEN get_inverted_coreg_info(info, r, succ)
                             ELSE coreg_info(info, r, succ)

\* _validate_ssim_improvement (line 1152): the de-shifted otherWin has the dimensions of
\* matchWin (lines 1102-1103), so _get_deshifted_otherWin is called once
validate_ssim_improvement(info, r, succ) == get_deshifted_otherWin(info, r, succ)

\* lines 1340-1349 for the result fields r: the optional fields and the return
Return(r, succ) ==
    /\ \E rel \in ReliabilityVals :
        /\ res' = WithMapInfo(r, rel)
        /\ res' = r => rel = 0
    /\ _coreg_info' = IF NonZero(r.x_shift_px) \/ NonZero(r.y_shift_px)
                      THEN validate_ssim_improvement(_coreg_info, WithMapInfo(r, 0), succ)
                      ELSE _coreg_info
    \* the read of coreg_info at line 1115 is a call of the property like any other
    /\ reading' = IF (NonZero(r.x_shift_px) \/ NonZero(r.y_shift_px))
                      /\ RunsCalculation(_coreg_info, succ)
                   THEN [reading EXCEPT !.runs = @ + 1]
                   ELSE reading
    /\ ret' = "success"
    /\ pc' = "returned"

\* lines 1304-1349 for the total shift
CheckMaxShift(total, st) ==
    /\ loc' = [loc EXCEPT !.totalshift = total]
    /\ tracked_errors' = st.log
    /\ success' = IF ExceedsMaxShift(total) THEN st.success ELSE "True"
    /\ IF st.raised # None
       THEN Raise(st.raised) /\ UNCHANGED <<res, _coreg_info, reading, ret>>
       ELSE /\ Return(IF StoresShift(total) THEN ShiftResult(total) ELSE res,
                      IF ExceedsMaxShift(total) THEN st.success ELSE "True")
            /\ UNCHANGED raised

ReportMaxShift(total) ==
    CheckMaxShift(total, handle_errors(ErrState, IF ExceedsMaxShift(total)
                                                 THEN <<"ShiftTooLarge">> ELSE <<>>))

\* sub-pixel shifts, max_shift check, result fields and return (lines 1298-1349)
CalcTotalShifts ==
    /\ pc = "total"
    /\ \/ /\ ~RefinesShift(success)
          /\ Return(res, success)
          /\ UNCHANGED <<tracked_errors, success, raised, loc>>
       \/ /\ RefinesShift(success)
          /\ loc.scps = Null
          \* _find_side_maximum(None)
          /\ Raise("TypeError")
          /\ UNCHANGED <<tracked_errors, success, loc, res, _coreg_info, reading, ret>>
       \/ /\ RefinesShift(success)
          /\ loc.scps # Null
          /\ \E sub \in SubShifts : ReportMaxShift(get_total_shifts(loc.intshift, sub))
    /\ UNCHANGED <<params, ref, shift, grid2use, overlap_poly, overlap_area, win_pos_XY,
                   win_size_XY, matchBox, otherBox, imfft_gsd, matchWin, otherWin, fftw_works,
                   fftw_win_size_YX>>

\* ------------------------------------------------------ the shift report
\* a caller reads the coreg_info property (lines 1360-1381) of an object that has no
\* dictionary yet (with one the property returns it and nothing changes): for success
\* None the property calls calculate_spatial_shifts, the steps above, and goes on in
\* CoregInfoReturn; otherwise it builds the dictionary at once
CoregInfo ==
    /\ pc \in {"constructed", "returned"}
    /\ ~reading.active
    /\ _coreg_info = Null
    /\ IF RunsCalculation(_coreg_info, success)
       THEN /\ reading' = [active |-> TRUE, runs |-> reading.runs + 1]
            /\ UNCHANGED _coreg_info
       ELSE /\ _coreg_info' = coreg_info(_coreg_info, res, success)
            /\ UNCHANGED reading
    /\ UNCHANGED <<pc, params, ref, shift, grid2use, overlap_poly, overlap_area, win_pos_XY,
                   win_size_XY, matchBox, otherBox, imfft_gsd, matchWin, otherWin, fftw_works,
                   fftw_win_size_YX, tracked_errors, success, raised, loc, res, ret>>

\* calculate_spatial_shifts has returned to the coreg_info property that called it: the
\* property assigns a new dictionary (lines 1370-1380) and returns it; an exception of
\* calculate_spatial_shifts leaves the property at line 1368
CoregInfoReturn ==
    /\ pc = "returned"
    /\ reading.active
    /\ _coreg_info' = NewCoregInfo(res, success)
    /\ reading' = [reading EXCEPT !.active = FALSE]
    /\ UNCHANGED <<pc, params, ref, shift, grid2use, overlap_poly, overlap_area, win_pos_XY,
                   win_size_XY, matchBox, otherBox, imfft_gsd, matchWin, otherWin, fftw_works,
                   fftw_win_size_YX, tracked_errors, success, raised, loc, res, ret>>

\* a caller (DESHIFTER set-up for the reference image, line 1115) calls
\* _get_inverted_coreg_info on an object whose success is not None; without a stored
\* shift "None *= -1" hands a TypeError to that caller, after line 1387 has built the
\* report, and the object stays as usable as it was
GetInvertedCoregInfo ==
    /\ pc \in {"constructed", "returned"}
    /\ ~reading.active
    /\ success # None
    /\ _coreg_info' = IF res.x_shift_px = Null
                      THEN coreg_info(_coreg_info, res, success)
                      ELSE get_inverted_coreg_info(_coreg_info, res, success)
    /\ UNCHANGED <<pc, raised, reading, params, ref, shift, grid2use, overlap_poly, overlap_area, win_pos_XY,
                   win_size_XY, matchBox, otherBox, imfft_gsd, matchWin, otherWin, fftw_works,
                   fftw_win_size_YX, tracked_errors, success, loc, res, ret>>

Next ==
    \/ GetImageParams \/ GetOverlapProperties \/ GetOptWinposWinsize
    \/ GetClipWindowProperties \/ InitFinish
    \/ CalcFail \/ GetImageWindowsToMatch \/ CalcShiftedCrossPowerSpectrum
    \/ CalcIntegerShifts \/ ValidateIntegerShifts \/ ValidationLoop
    \/ RevalidateIntegerShifts \/ CalcTotalShifts
    \/ CoregInfo \/ CoregInfoReturn \/ GetInvertedCoregInfo

Spec == Init /\ [][Next]_vars

\* positions of the constructor and of calculate_spatial_shifts
Positions ==
    {"new", "overlap", "winpos", "plan", "finish", "constructed", "scps", "intshift",
     "validate", "loop", "revalidate", "total", "returned", "raised"}

\* the interpreter executes the next statement: every step of the constructor and of
\* calculate_spatial_shifts leaves the current position, and one is possible at every
\* position but "returned" and "raised"
Proceed == pc \notin {"returned", "raised"} /\ pc' \in Positions /\ pc' # pc

\* the caller runs the constructor and calculate_spatial_shifts to their end
FairSpec == Spec /\ WF_pc(Proceed)

\* ------------------------------------------------------------------- claims
\* the constructor or calculate_spatial_shifts has returned or been left by an exception
Terminated == pc \in {"returned", "raised"}
Last(q) == q[Len(q)]
InLog(error) == \E i \in 1..Len(tracked_errors) : tracked_errors[i] = error
\* |r| > m for a rational r and an integer m
AbsExceeds(r, m) == Abs(r.n) > m * r.d
\* rectangle inner has no point outside rectangle outer
Contains(outer, inner) ==
    /\ outer.xmin <= inner.xmin /\ inner.xmax <= outer.xmax
    /\ outer.ymin <= inner.ymin /\ inner.ymax <= outer.ymax

\* C1: every error reported through _handle_error is in tracked_errors; with
\* ignore_errors false it is raised, so the log holds exactly the one error that is in
\* flight; with ignore_errors true no reported error is raised and a run that has
\* reported one ends with success = False
C1_HandleErrorContract ==
    /\ (~params.ignore_errors /\ tracked_errors # <<>>) =>
            /\ Len(tracked_errors) = 1
            /\ pc = "raised"
            /\ raised = tracked_errors[1]
            /\ success = "False"
    /\ (params.ignore_errors /\ tracked_errors # <<>>) =>
            /\ ~InLog(raised)
            /\ pc = "returned" => success = "False"

\* a run under ignore_errors that has reported an error and has returned
C1_Witness ==
    /\ params.ignore_errors
    /\ tracked_errors # <<>>
    /\ pc = "returned"
    /\ ret = "success"

\* C2: with ignore_errors true, success = False implies that x_shift_px, y_shift_px,
\* x_shift_map and y_shift_map are all null
C2_FailedHasNoShift ==
    (params.ignore_errors /\ success = "False") =>
        /\ res.x_shift_px = Null /\ res.y_shift_px = Null
        /\ res.x_shift_map = Null /\ res.y_shift_map = Null

\* a run under ignore_errors that failed at the last step, the max_shift check
C2_Witness ==
    /\ params.ignore_errors
    /\ success = "False"
    /\ pc = "returned"
    /\ loc.totalshift # Null
    /\ Last(tracked_errors) = "ShiftTooLarge"

\* C3: success = True implies that tracked_errors is empty
C3_SuccessHasEmptyLog == success = "True" => tracked_errors = <<>>

\* a run that reported a WindowMismatch under ignore_errors and has returned
C3_Witness ==
    /\ params.ignore_errors
    /\ InLog("WindowMismatch")
    /\ pc = "returned"

\* C4: a call that returns with success = True has computed a total shift, has set
\* x_shift_px and y_shift_px, and the total shift is within max_shift on both axes; a
\* computed total shift beyond max_shift ends in ShiftTooLarge with success = False
C4_SuccessWithinMaxShift ==
    /\ (pc = "returned" /\ success = "True") =>
            /\ loc.totalshift # Null
            /\ res.x_shift_px # Null /\ res.y_shift_px # Null
            /\ ~AbsExceeds(loc.totalshift[1], params.max_shift)
            /\ ~AbsExceeds(loc.totalshift[2], params.max_shift)
    /\ (Terminated /\ loc.totalshift # Null
        /\ (\/ AbsExceeds(loc.totalshift[1], params.max_shift)
            \/ AbsExceeds(loc.totalshift[2], params.max_shift))) =>
            /\ Last(tracked_errors) = "ShiftTooLarge"
            /\ success = "False"
            /\ res.x_shift_px = Null /\ res.y_shift_px = Null

\* a call in which success had been set to True (integer shift (0, 0)) before the total
\* shift was found to exceed max_shift
C4_Witness ==
    /\ pc = "returned"
    /\ loc.intshift = <<0, 0>>
    /\ loc.totalshift # Null
    /\ AbsExceeds(loc.totalshift[1], params.max_shift)
    /\ success = "False"

\* C5: a run that ends in success has a shift of at most max_shift reference pixels on
\* each axis (the map shift divided by the reference pixel size)
C5_ShiftInReferencePixels ==
    (pc = "returned" /\ success = "True" /\ res.x_shift_map # Null) =>
        /\ ~AbsExceeds(res.x_shift_map, params.max_shift * ref.gt.gsd)
        /\ ~AbsExceeds(res.y_shift_map, params.max_shift * ref.gt.gsd)

\* a successful run on the grid of a target that is coarser than the reference
C5_Witness ==
    /\ pc = "returned"
    /\ success = "True"
    /\ grid2use = "shift"
    /\ imfft_gsd[1] # ref.gt.gsd
    /\ NonZero(res.x_shift_px)

\* the validation loop has been left
LoopLeft == pc \in {"total", "returned", "raised"}
AllNonzero(q) == q # <<>> /\ \A i \in 1..Len(q) : q[i] = "nonzero"
NoneZero(q) == q # <<>> /\ \A i \in 1..Len(q) : q[i] # "zero"
\* the run has failed with NoMatchFound: raised, or logged with success = False
FailedWithNoMatch ==
    /\ InLog("NoMatchFound")
    /\ success = "False"
    /\ \/ raised = "NoMatchFound"
       \/ params.ignore_errors /\ raised = None

\* C6: calculate_spatial_shifts makes at most max_iter validation steps and terminates;
\* if each of the max_iter validation steps yields a nonzero integer shift the run fails
\* with NoMatchFound (a validation step that yields no usable SCPS ends the run with
\* WindowTooSmall instead)
C6_BoundedValidation ==
    /\ [](/\ Len(loc.validations) <= params.max_iter
          /\ (LoopLeft /\ AllNonzero(loc.validations)) =>
                (Len(loc.validations) = params.max_iter /\ FailedWithNoMatch))
    /\ <>Terminated

\* C6 as stated: at most max_iter validation steps, termination, and NoMatchFound
\* whenever no validation step has yielded the integer shift (0, 0)
C6_NoZeroShiftIsNoMatch ==
    /\ [](/\ Len(loc.validations) <= params.max_iter
          /\ (LoopLeft /\ NoneZero(loc.validations)) => FailedWithNoMatch)
    /\ <>Terminated

\* a run that used its whole budget of MaxIter validation steps on nonzero shifts
C6_Witness ==
    /\ pc = "returned"
    /\ params.max_iter = MaxIter
    /\ Len(loc.validations) = MaxIter
    /\ AllNonzero(loc.validations)
    /\ InLog("NoMatchFound")

\* C7: with unequal projections the constructor ends with UnequalProjections before any
\* window is planned or read, and no shift is set, whatever ignore_errors is
C7_UnequalProjectionsAbort ==
    ref.prj # shift.prj =>
        /\ pc \in {"new", "raised"}
        /\ pc = "raised" => raised = "UnequalProjections"
        /\ matchBox = Null /\ otherBox = Null
        /\ matchWin = Null /\ otherWin = Null
        /\ res = NoResult

\* the constructor has been left with UnequalProjections although ignore_errors is true
C7_Witness ==
    /\ ref.prj # shift.prj
    /\ params.ignore_errors
    /\ pc = "raised"
    /\ raised = "UnequalProjections"

\* _get_overlap_properties has run
OverlapChecked == pc \notin {"new", "overlap"} /\ raised # "UnequalProjections"

Disjoint == Intersection(ImageExtent(ref), ImageExtent(shift)) = Null

\* C9: with disjoint footprints the run ends with success = False and
\* InsufficientOverlap in tracked_errors; with ignore_errors true nothing is raised
C9_DisjointIsLogged ==
    (Disjoint /\ Terminated) =>
        /\ success = "False"
        /\ InLog("InsufficientOverlap")
        /\ params.ignore_errors => raised = None

\* a run on disjoint footprints under ignore_errors has ended
C9_Witness ==
    /\ Disjoint
    /\ params.ignore_errors
    /\ Terminated

\* C10: after a planner that reported no failure, matchBox and otherBox are set,
\* matchBox lies within or equals otherBox and otherBox lies within or equals the
\* overlap; after a planner that reported a failure both are unset
C10_PlannedBoxesNested ==
    pc \in {"finish", "constructed"} =>
        IF success # "False"
        THEN /\ matchBox # Null /\ otherBox # Null
             /\ Contains(otherBox.poly, matchBox.poly)
             /\ Contains(overlap_poly, otherBox.poly)
        ELSE matchBox = Null /\ otherBox = Null

\* the planner has published an otherBox that is larger than matchBox
C10_Witness ==
    /\ pc = "finish"
    /\ success # "False"
    /\ matchBox # Null
    /\ matchBox.poly # otherBox.poly

\* the raster the matching window is to be built on: the one with the larger pixel
\* size, the reference if the sizes are equal
CoarserIm == IF ref.gt.gsd >= shift.gt.gsd THEN ref ELSE shift

\* C11: grid2use is the raster with the larger pixel size (the reference on a tie): once
\* the planner has published its boxes, imfft_gsd is max(ref pixel size, target pixel
\* size) and matchBox lies on that raster's grid
C11_MatchGridIsCoarser ==
    /\ pc \notin {"new", "raised"} =>
          grid2use = (IF ref.gt.gsd >= shift.gt.gsd THEN "ref" ELSE "shift")
    /\ imfft_gsd # Null =>
        /\ imfft_gsd[1] = Max(ref.gt.gsd, shift.gt.gsd)
        /\ matchBox # Null
        /\ matchBox.gt.gsd = imfft_gsd[1]
        /\ pc \in {"finish", "constructed"} => matchBox.gt = CoarserIm.gt

\* C11 as stated: after planning imfft_gsd is min(ref pixel size, target pixel size) and
\* matchBox lies on the grid of the raster with the smaller pixel size
C11_MatchGridIsFiner ==
    imfft_gsd # Null =>
        /\ imfft_gsd[1] = Min(ref.gt.gsd, shift.gt.gsd)
        /\ matchBox # Null
        /\ matchBox.gt.gsd = Min(ref.gt.gsd, shift.gt.gsd)

\* the planner has published its boxes for a target that is finer than the reference
C11_Witness ==
    /\ pc = "constructed"
    /\ imfft_gsd # Null /\ matchBox # Null
    /\ shift.gt.gsd < ref.gt.gsd
    /\ grid2use = "ref"

\* the user has given both axes of the window position, and the position does not lie
\* inside the overlap polygon
UserWpOutside ==
    /\ params.wp[1] # Null /\ params.wp[2] # Null
    /\ overlap_poly # Null
    /\ ~ContainsPoint(overlap_poly, <<params.wp[1][1], params.wp[2][1]>>)
\* _get_opt_winpos_winsize has run
WinposDone ==
    /\ pc \notin {"new", "overlap", "winpos"}
    /\ raised \notin {"UnequalProjections", "InsufficientOverlap"}

\* C12: a user-supplied window position outside the overlap is reported as
\* WindowOutsideOverlap: raised if ignore_errors is false; otherwise logged, nothing is
\* raised, success is False after construction and calculate_spatial_shifts returns
\* 'fail' without reading windows or computing anything
C12_WindowOutsideOverlap ==
    (UserWpOutside /\ WinposDone) =>
        /\ InLog("WindowOutsideOverlap")
        /\ success = "False"
        /\ IF ~params.ignore_errors
           THEN pc = "raised" /\ raised = "WindowOutsideOverlap"
           ELSE /\ raised = None
                /\ matchWin = Null /\ otherWin = Null /\ loc = NoLocals
                /\ pc = "returned" => ret = "fail"

\* under ignore_errors a run with a window position just outside the overlap has
\* returned 'fail' from calculate_spatial_shifts
C12_Witness ==
    /\ UserWpOutside
    /\ params.wp[1][1] > overlap_poly.xmax
    /\ params.ignore_errors
    /\ pc = "returned" /\ ret = "fail"
    /\ InLog("WindowOutsideOverlap")

\* a raster has a bad-data mask whose pixel at the chosen window position is true
MaskHit ==
    \E im \in {ref, shift} : im.mask_baddata # Null /\ MaskPixel(im, OptWinpos.wp)
\* _get_opt_winpos_winsize has come to its mask check
MasksChecked ==
    WinposDone /\ raised \notin {"WindowOutsideOverlap", "AssertionError"}

\* C13: if a raster has a bad-data mask whose pixel at the window position is true,
\* WindowInBadData is recorded with success = False (and raised unless ignore_errors);
\* if no mask pixel at the position is true, or no mask is given, it is never recorded
C13_BadDataWindow ==
    /\ (MasksChecked /\ MaskHit) =>
            /\ InLog("WindowInBadData")
            /\ success = "False"
            /\ ~params.ignore_errors => raised = "WindowInBadData"
    /\ (overlap_poly # Null /\ ~MaskHit) => ~InLog("WindowInBadData")

\* the constructor has ended for a reference whose mask pixel at the window position
\* is true
C13_Witness ==
    /\ pc = "constructed"
    /\ ref.mask_baddata # Null
    /\ MaskPixel(ref, <<win_pos_XY[1][1], win_pos_XY[2][1]>>)

\* _get_image_windows_to_match has returned
Materialized ==
    /\ pc \in {"scps", "intshift", "validate", "loop", "revalidate", "total", "returned"}
    /\ matchWin # Null /\ otherWin # Null
Even(i) == i % 2 = 0

\* C14: after _get_image_windows_to_match both arrays have the same shape with an even
\* row count and an even column count; the matching window has lost one trailing row
\* (column) if the count read from the raster was odd and none if it was even
C14_EvenEqualWindows ==
    Materialized =>
        /\ matchWin.shape = otherWin.shape
        /\ Even(matchWin.shape[1]) /\ Even(matchWin.shape[2])
        /\ Even(otherWin.shape[1]) /\ Even(otherWin.shape[2])
        /\ \A i \in 1..2 :
              matchWin.shape[i] = (IF Even(matchWin.read[i]) THEN matchWin.read[i]
                                   ELSE matchWin.read[i] - 1)

\* windows with an odd row or column count have been read and trimmed
C14_Witness ==
    /\ Materialized
    /\ ~Even(matchWin.read[1]) \/ ~Even(matchWin.read[2])
    /\ matchWin.shape = otherWin.shape
    /\ Even(matchWin.shape[1]) /\ Even(matchWin.shape[2])

\* C15: a run that has ended with success = True has all derived result fields set,
\* also for a computed shift of exactly (0, 0): map shift, updated map info, vector
\* length, vector angle and reliability
C15_ResultFieldsPopulated ==
    (pc = "returned" /\ success = "True") =>
        /\ res.x_shift_map # Null /\ res.y_shift_map # Null
        /\ res.updated_map_info # Null
        /\ res.vec_length_map # Null
        /\ res.vec_angle_deg # Null
        /\ res.shift_reliability # Null

\* a successful run with a computed shift of exactly (0, 0) has returned
C15_Witness ==
    /\ pc = "returned" /\ success = "True"
    /\ res.x_shift_px = Rat(0, 1) /\ res.y_shift_px = Rat(0, 1)
    /\ res.x_shift_map # Null /\ res.vec_length_map # Null /\ res.vec_angle_deg # Null

\* the rational m is the rational p times the integer k
IsMultiple(m, p, k) == m.n * p.d = p.n * k * m.d

\* C16: with the target geotransform (ox, px, 0, oy, 0, -py) the map shift is
\* dx_map = dx_px * px and dy_map = -(dy_px * py): rows count southwards, so dy_map has
\* the sign opposite to dy_px
C16_MapShiftFromGeotransform ==
    res.x_shift_px # Null =>
        /\ res.y_shift_px # Null /\ res.x_shift_map # Null /\ res.y_shift_map # Null
        /\ IsMultiple(res.x_shift_map, res.x_shift_px, shift.gt.gsd)
        /\ IsMultiple(res.y_shift_map, res.y_shift_px, -shift.gt.gsd)

\* C16 as stated: dx_map = dx_px * px, and dy_map has the sign of dy_px and the
\* magnitude |dy_px| * py
C16_MapShiftSameSign ==
    res.x_shift_px # Null =>
        /\ res.y_shift_px # Null /\ res.x_shift_map # Null /\ res.y_shift_map # Null
        /\ IsMultiple(res.x_shift_map, res.x_shift_px, shift.gt.gsd)
        /\ IsMultiple(res.y_shift_map, res.y_shift_px, shift.gt.gsd)

\* a run has stored a pixel shift with dx_px > 0 and dy_px < 0
C16_Witness ==
    /\ pc = "returned" /\ success = "True"
    /\ res.x_shift_px # Null /\ res.x_shift_px.n > 0
    /\ res.y_shift_px.n < 0
    /\ res.x_shift_map.n > 0 /\ res.y_shift_map.n > 0

\* the shift report repeats the stored shift
ReportsStoredShift ==
    /\ _coreg_info.corrected_shifts_px  = [x |-> res.x_shift_px,  y |-> res.y_shift_px]
    /\ _coreg_info.corrected_shifts_map = [x |-> res.x_shift_map, y |-> res.y_shift_map]

\* C17: once the shift report exists it never changes: no step, in particular no call of
\* _get_inverted_coreg_info, alters 'corrected_shifts_px' or 'corrected_shifts_map' of
\* coreg_info, and the report carries the stored shift
C17_ReportImmutable ==
    [][_coreg_info # Null =>
          /\ _coreg_info'.corrected_shifts_px  = _coreg_info.corrected_shifts_px
          /\ _coreg_info'.corrected_shifts_map = _coreg_info.corrected_shifts_map]_vars

\* calculate_spatial_shifts has returned a nonzero shift for a reference that was
\* resampled, and the report holds the shift with both signs reversed
C17_Witness ==
    /\ pc = "returned" /\ success = "True" /\ ret = "success"
    /\ otherWin.imID = "ref"
    /\ NonZero(res.x_shift_px)
    /\ _coreg_info # Null
    /\ ~ReportsStoredShift
    /\ _coreg_info.corrected_shifts_px = Inverted([x |-> res.x_shift_px, y |-> res.y_shift_px])

\* a step of calculate_spatial_shifts
CalcStep ==
    \/ CalcFail \/ GetImageWindowsToMatch \/ CalcShiftedCrossPowerSpectrum
    \/ CalcIntegerShifts \/ ValidateIntegerShifts \/ ValidationLoop
    \/ RevalidateIntegerShifts \/ CalcTotalShifts
\* the constructor is still running
Constructing == pc \in {"new", "overlap", "winpos", "plan", "finish"}

\* C18: when the constructor has returned, success is None if planning succeeded and
\* False if it failed (an error was logged, no matching box exists), never True, and all
\* result fields are null; afterwards success leaves None only in a step of
\* calculate_spatial_shifts
C18_SuccessAfterConstruction ==
    /\ [](pc = "constructed" =>
            /\ success \in {None, "False"}
            /\ success = "False" <=> tracked_errors # <<>>
            /\ success = "False" <=> matchBox = Null
            /\ res = NoResult)
    /\ [][(~Constructing /\ success = None /\ success' # None) => CalcStep]_vars

\* an object constructed without a planning error has run calculate_spatial_shifts,
\* which set success to True
C18_Witness ==
    /\ pc = "returned" /\ ret = "success"
    /\ tracked_errors = <<>>
    /\ success = "True"

\* C19: when calculate_spatial_shifts has returned, it returned 'fail' if success is
\* False and 'success' only if success is True
C19_ReturnValueTellsSuccess ==
    ret # None =>
        /\ success = "False" => ret = "fail"
        /\ ret = "success" => success = "True"

\* calculate_spatial_shifts has returned 'success' for a run that ignore_errors kept
\* alive after NoMatchFound or ShiftTooLarge, with success False and no shift stored
C19_Witness ==
    /\ pc = "returned" /\ ret = "success"
    /\ params.ignore_errors
    /\ success = "False"
    /\ InLog("NoMatchFound") \/ InLog("ShiftTooLarge")
    /\ res.x_shift_px = Null

\* the validation loop has accepted: the last of the validations made found the
\* residual shift (0, 0); integer shifts are validated only if they are not (0, 0)
LoopAccepted ==
    /\ pc \in {"total", "returned"}
    /\ success = "True"
    /\ Len(loc.validations) >= 1
    /\ Last(loc.validations) = "zero"

\* C20: when the validation loop has accepted, after the first or after a later
\* validation, the integer shift that enters the total shift is the displacement that
\* was validated and therefore not (0, 0); the first validation leaves the detected
\* integer shift as it is
C20_AcceptedShiftIsCumulative ==
    /\ [](LoopAccepted => loc.intshift # <<0, 0>>)
    /\ [][(pc = "validate" /\ pc' = "loop" /\ loc'.valid_invalid = "valid")
            => loc'.intshift = loc.intshift]_vars

\* the second validation has accepted a detected nonzero integer shift, and the shift
\* that entered the total shift is (0, 0): the total shift is the sub-pixel shift alone
C20_Witness ==
    /\ pc = "returned" /\ ret = "success" /\ success = "True"
    /\ Len(loc.validations) = 2
    /\ loc.validations = <<"nonzero", "zero">>
    /\ loc.intshift = <<0, 0>>
    /\ loc.totalshift # Null
    /\ ~AbsExceeds(loc.totalshift[1], 1) /\ ~AbsExceeds(loc.totalshift[2], 1)

\* the shape of the arrays handed to the last SCPS computation: the matching window for
\* the initial SCPS, the re-centred window for the first validation
LastFftInput ==
    IF pc = "intshift" THEN matchWin.shape
    ELSE GrosslyDeshiftedShape(matchWin.shape, loc.intshift)
AfterBinarySizing ==
    /\ params.binary_ws
    /\ pc = "intshift" \/ (pc = "loop" /\ Len(loc.validations) = 1)
\* p is the largest of the sizes 8, 16, ..., 8192 that does not exceed n
LargestBinarySize(p, n) ==
    /\ \E i \in 3..13 : p = 2^i
    /\ p <= n
    /\ 2 * p > n \/ p = 2^13
\* p is the largest power of two that does not exceed n
LargestPowerOfTwo(p, n) ==
    /\ \E i \in 0..13 : p = 2^i
    /\ p <= n
    /\ 2 * p > n

\* C21: with binary sizing, for a window with at least 8 rows and 8 columns the FFT size
\* on each axis is the largest of the sizes 8, 16, ..., 8192 that is <= the axis length,
\* with force_quadratic_win the smaller of the two on both axes, and the SCPS has that
\* shape; for a window with an axis shorter than 8 there is no FFT size and no SCPS
C21_BinaryFftSize ==
    AfterBinarySizing =>
        IF LastFftInput[1] >= 8 /\ LastFftInput[2] >= 8
        THEN /\ fftw_win_size_YX # Null
             /\ loc.scps = fftw_win_size_YX
             /\ \E y, x \in BinarySizes :
                    /\ LargestBinarySize(y, LastFftInput[1])
                    /\ LargestBinarySize(x, LastFftInput[2])
                    /\ fftw_win_size_YX = IF params.force_quadratic_win
                                          THEN <<Min(y, x), Min(y, x)>> ELSE <<y, x>>
        ELSE fftw_win_size_YX = Null /\ loc.scps = Null

\* C21 as stated: with binary sizing, for every window shape the FFT size on each axis is
\* the largest power of two <= the axis length, with force_quadratic_win the smaller of
\* the two on both axes, and the SCPS has that shape
C21_LargestPowerOfTwo ==
    (AfterBinarySizing /\ LastFftInput[1] >= 1 /\ LastFftInput[2] >= 1) =>
        /\ fftw_win_size_YX # Null
        /\ loc.scps = fftw_win_size_YX
        /\ \E y, x \in {2^i : i \in 0..13} :
               /\ LargestPowerOfTwo(y, LastFftInput[1])
               /\ LargestPowerOfTwo(x, LastFftInput[2])
               /\ fftw_win_size_YX = IF params.force_quadratic_win
                                     THEN <<Min(y, x), Min(y, x)>> ELSE <<y, x>>

\* the first validation has computed an SCPS of 8 x 16 for a re-centred window of
\* 14 x 16 without force_quadratic_win
C21_Witness ==
    /\ AfterBinarySizing /\ pc = "loop"
    /\ ~params.force_quadratic_win
    /\ LastFftInput = <<14, 16>>
    /\ fftw_win_size_YX = <<8, 16>>
    /\ loc.scps = <<8, 16>>

\* a validation has been left without a usable SCPS
NoneFound == \E i \in 1..Len(loc.validations) : loc.validations[i] = "none"

\* C22: a run of calculate_spatial_shifts whose initial SCPS is missing has recorded
\* WindowTooSmall and ends with success = False, null shifts and 'fail'; a validation
\* whose window is empty or whose SCPS is smaller than 3 x 3 is the last one, and the
\* run is left with WindowTooSmall recorded, success = False and null shifts
C22_WindowTooSmall ==
    /\ (pc = "returned" /\ matchWin # Null /\ loc.scps = Null /\ loc.validations = <<>>) =>
            /\ InLog("WindowTooSmall") /\ success = "False"
            /\ res.x_shift_px = Null /\ res.y_shift_px = Null
            /\ ret = "fail"
    /\ (LoopLeft /\ NoneFound) =>
            /\ Last(loc.validations) = "none"
            /\ InLog("WindowTooSmall") /\ success = "False"
            /\ res.x_shift_px = Null /\ res.y_shift_px = Null

\* the first validation re-centred a window of 16 columns by 8 columns, the FFT window
\* had no columns, and the run was left by an exception that is not WindowTooSmall
C22_Witness ==
    /\ pc = "raised" /\ raised = "Exception"
    /\ loc.validations = <<"none">>
    /\ GrosslyDeshiftedShape(matchWin.shape, loc.intshift)[2] = 0
    /\ GrosslyDeshiftedShape(matchWin.shape, loc.intshift)[1] > 0
    /\ ~InLog("WindowTooSmall")
    /\ success # "False"

\* the box has fewer than 16 rows or fewer than 16 columns
Below16(box) == ImDimsYX(box)[1] < 16 \/ ImDimsYX(box)[2] < 16
\* the planner arrives at its output validation with a box below 16 x 16 pixels,
\* whenever the wall clock limit strikes
PlansSmallBox ==
    \A t \in TimeoutPasses :
        /\ ~PlanWindows(t).crash
        /\ Below16(PlanWindows(t).matchBox) \/ Below16(PlanWindows(t).otherBox)

\* C23: if the planner arrives at its output validation with a matchBox or an otherBox
\* of fewer than 16 rows or 16 columns, planning fails with WindowTooSmall: the error is
\* recorded, success is False and no box is published; published boxes have at least
\* 16 x 16 pixels each
C23_SmallBoxFailsPlanning ==
    /\ [](matchBox # Null \/ otherBox # Null =>
            /\ matchBox # Null /\ otherBox # Null
            /\ ~Below16(matchBox) /\ ~Below16(otherBox))
    /\ [][(pc = "plan" /\ PlansSmallBox /\ raised' # "ShrinkageDeadlock") =>
            /\ InLog("WindowTooSmall")'
            /\ success' = "False"
            /\ matchBox' = Null /\ otherBox' = Null
            /\ raised' = (IF params.ignore_errors THEN None ELSE "WindowTooSmall")]_vars

\* the constructor has ended under ignore_errors for a window position at which only
\* boxes below 16 x 16 pixels fit: WindowTooSmall is recorded and no box is published
C23_Witness ==
    /\ pc = "constructed"
    /\ PlansSmallBox
    /\ InLog("WindowTooSmall")
    /\ success = "False"
    /\ matchBox = Null /\ otherBox = Null

\* the shape of the arrays the SCPS computation of the next step works on
NextFftInput ==
    IF pc = "scps" THEN matchWin.shape
    ELSE IF pc = "validate" THEN GrosslyDeshiftedShape(matchWin.shape, loc.intshift)
    ELSE GrosslyDeshiftedShape(matchWin.shape, loc.val_shift)
\* the SCPS computation of the next step if pyfftw returns an array of deviation 0
DegenerateScps ==
    calc_shifted_cross_power_spectrum(ErrState, fftw_works, NextFftInput, NextFftInput, TRUE)

\* C24: once fftw_works is False it stays False, so no later SCPS computation of the run
\* takes the pyfftw branch (the only place that sets the flag to True); the SCPS
\* computation that sets the flag to False still yields its SCPS and leaves
\* tracked_errors and success as they are
C24_FftwFlagPermanent ==
    /\ [][fftw_works = "False" => fftw_works' = "False"]_vars
    /\ []((/\ pc \in {"scps", "validate", "revalidate"}
           /\ params.pyfftw /\ fftw_works # "False"
           /\ Computable(FftWinSize(NextFftInput))) =>
             /\ DegenerateScps.fftw_works = "False"
             /\ DegenerateScps.scps # Null
             /\ DegenerateScps.st.log = tracked_errors
             /\ DegenerateScps.st.success = success
             /\ DegenerateScps.st.raised = None)

\* a run in which pyfftw failed and a validation was computed has ended with
\* success = True and an empty error log
C24_Witness ==
    /\ pc = "returned" /\ ret = "success"
    /\ params.pyfftw /\ fftw_works = "False"
    /\ Len(loc.validations) >= 1
    /\ success = "True"
    /\ tracked_errors = <<>>
    /\ res.x_shift_px # Null

\* the planner, with the wall clock limit striking in pass t, leaves its shrink loop
\* with ShrinkageDeadlock reported
ReportsDeadlock(t) ==
    \E i \in 1..Len(PlanWindows(t).errs) : PlanWindows(t).errs[i] = "ShrinkageDeadlock"
\* the planner leaves its shrink loop with otherBox within the overlap
EndsWithin(t) == Within(PlanWindows(t).otherBox.poly, overlap_poly)

\* C25: the shrink loop of the planner is left either with otherBox within the overlap
\* or with ShrinkageDeadlock reported, never with both and never with neither
C25_ShrinkLoopExit ==
    pc = "plan" =>
        \A t \in TimeoutPasses :
            ~PlanWindows(t).crash => (EndsWithin(t) <=> ~ReportsDeadlock(t))

\* planning has ended with ShrinkageDeadlock recorded for a shrink loop whose last pass
\* brought otherBox within the overlap
C25_Witness ==
    /\ pc = "finish"
    /\ InLog("ShrinkageDeadlock")
    /\ success = "False"
    /\ matchBox = Null
    /\ \E t \in TimeoutPasses :
          ~PlanWindows(t).crash /\ ReportsDeadlock(t) /\ EndsWithin(t)

\* C26: a coordinate of wp that the user gave, the value 0 included, is the coordinate
\* of win_pos_XY on that axis; only a null coordinate is replaced by a default
C26_UserCoordinateKept ==
    \A axis \in 1..2 : params.wp[axis] # Null => win_pos_XY[axis] = params.wp[axis]

\* the window position has been chosen for wp = (None, 0): the y coordinate 0 was
\* replaced by that of the overlap centroid
C26_Witness ==
    /\ pc = "plan"
    /\ params.wp[1] = Null /\ params.wp[2] = <<0>>
    /\ win_pos_XY[2] # <<0>>
    /\ win_pos_XY[2] = <<Centroid(overlap_poly)[2]>>

\* C27: a call of calculate_spatial_shifts on an object whose success is False returns
\* 'fail' and leaves tracked_errors, matchWin, otherWin, success, the result fields and
\* the shift report as they are
C27_FailedRunIsNoOp ==
    [][(/\ success = "False"
        /\ pc \in {"constructed", "returned"}
        /\ pc' # pc \/ ret' # ret) =>
            /\ ret' = "fail"
            /\ pc' = "returned"
            /\ UNCHANGED <<tracked_errors, matchWin, otherWin, success, res, raised,
                           _coreg_info, loc>>]_vars

\* calculate_spatial_shifts has returned 'fail' on an object whose planning had failed:
\* no window was read and no result field is set
C27_Witness ==
    /\ pc = "returned" /\ ret = "fail"
    /\ success = "False"
    /\ tracked_errors # <<>>
    /\ matchBox = Null /\ matchWin = Null /\ otherWin = Null
    /\ res = NoResult
    /\ loc = NoLocals

\* C28: in every state in which success is False, tracked_errors holds at least one
\* error
C28_FailedHasError == success = "False" => tracked_errors # <<>>

\* the validation loop has been left through "self.success = False; break" after a
\* validation without usable SCPS, with the error of that validation in the log
C28_Witness ==
    /\ pc = "total"
    /\ success = "False"
    /\ Len(loc.validations) = 1 /\ loc.val_shift = Null
    /\ loc.count_iter = 2
    /\ tracked_errors = <<"WindowTooSmall">>

\* C29: when calculate_spatial_shifts arrives at the sub-pixel refinement with success
\* True or None, the SCPS is not missing; _calc_subpixel_shifts never fails on a missing
\* SCPS, and a total shift is only computed from an SCPS
C29_RefinementHasScps ==
    /\ (pc = "total" /\ success \in {"True", None}) => loc.scps # Null
    /\ raised # "TypeError"
    /\ loc.totalshift # Null => loc.scps # Null

\* the second validation was valid: the refinement is reached with the SCPS of that
\* validation
C29_Witness ==
    /\ pc = "total"
    /\ success = "True"
    /\ loc.validations = <<"nonzero", "zero">>
    /\ loc.scps # Null /\ loc.scps[1] >= 3 /\ loc.scps[2] >= 3

\* the caller runs the constructor and calculate_spatial_shifts to their end, and a
\* coreg_info property that has called calculate_spatial_shifts goes on when it returns
FairReadSpec == FairSpec /\ WF_vars(CoregInfoReturn)

\* a read of coreg_info starts calculate_spatial_shifts only for an object just
\* constructed with success None and no dictionary, and no read has done so before
StartsOnlyWhenUnknown ==
    reading'.runs > reading.runs =>
        /\ success = None /\ _coreg_info = Null
        /\ pc = "constructed" /\ reading.runs = 0 /\ reading'.runs = 1

\* with a dictionary stored and no read in progress no step computes shifts
CachedReadComputesNothing ==
    (_coreg_info # Null /\ ~reading.active) =>
        /\ reading' = reading /\ success' = success
        /\ res' = res /\ loc' = loc /\ matchWin' = matchWin /\ otherWin' = otherWin

\* a dictionary built while success is False is built without computing anything and
\* holds no shift
FailedReadReportsNull ==
    (success = "False" /\ ~reading.active /\ _coreg_info = Null /\ _coreg_info' # Null) =>
        /\ _coreg_info'.corrected_shifts_px = [x |-> Null, y |-> Null]
        /\ _coreg_info'.corrected_shifts_map = [x |-> Null, y |-> Null]
        /\ _coreg_info'.success = "False"
        /\ reading' = reading /\ success' = success
        /\ res' = res /\ loc' = loc /\ matchWin' = matchWin /\ otherWin' = otherWin

\* the read that has run calculate_spatial_shifts has returned its dictionary
ReadDone == ~reading.active /\ reading.runs = 1 /\ pc = "returned" /\ _coreg_info # Null

\* C30: a read of coreg_info while success is None runs calculate_spatial_shifts exactly
\* once and ends, with its dictionary or with the exception of that run (the read made
\* during the SSIM check starts no run); once a dictionary is stored no read computes
\* shifts again; a read while success is False computes nothing and reports null shifts
C30_ReadComputesOnce ==
    /\ [](reading.runs <= 1 /\ (reading.active => reading.runs = 1))
    /\ [][StartsOnlyWhenUnknown]_vars
    /\ [][CachedReadComputesNothing]_vars
    /\ [][FailedReadReportsNull]_vars
    /\ reading.active ~> (ReadDone \/ pc = "raised")

\* a read of coreg_info has run calculate_spatial_shifts, the run has read coreg_info
\* itself for the SSIM check of a non-zero shift, and the read has returned its dictionary
C30_Witness ==
    /\ ReadDone
    /\ success = "True"
    /\ NonZero(res.x_shift_px)
    /\ _coreg_info.success = "True"

====
